---- MODULE Spec2Model ----
(***************************************************************************)
(* Chat turn orchestrator of the Electron main process:                    *)
(*   sendMessage / stopGeneration (chat-service.ts) over the conversation  *)
(*   store (appendMessage, getConversationMessages, updateConversationMeta)*)
(* Strings are sequences of integer tokens: the empty string is <<>> and   *)
(* concatenation is \o.  A turn is one call of sendMessage.                *)
(***************************************************************************)
EXTENDS Integers, Sequences, FiniteSets, TLC

\* ---------------------------------------------------------------- bounds
MaxTurns == 2        \* calls of sendMessage in one behaviour
MaxDeltas == 2       \* stream events delivered in one behaviour, over all calls
MaxHistory == 4      \* messages in a history handed to filterHistory
MaxDividers == 2     \* ids in a contextDividers list
MaxContextLength == 3 \* largest numeric contextLength
MaxFrames == 2        \* frames read from all streams together
MaxParts == 2         \* parts in one Google frame
MaxQuotes == 2        \* quote characters on one side of a title response
MaxLimit == 5         \* largest limit given to getRecentMessages

Turns == 1..MaxTurns
Convs == {"a", "b"}                 \* conversation ids
ModelIds == {"m1"}
UserTexts == {<<0>>}                \* the text token 0
Elapsed == {0, 1}                   \* milliseconds between two clock reads
ChannelStates == {"ok", "missing", "undecryptable"}

Infinite == -1       \* contextLength 'infinite' / undefined (not a number >= 0)
ContextLengths == {Infinite}
NoTurn == 0          \* no controller registered
NoId == 0            \* messageId absent (undefined)
Absent == [present |-> FALSE, updatedAt |-> 0]

\* The arguments of a filterHistory call.  A history is a log as the store
\* keeps it: message ids are unique (here the position at which the message
\* was appended), roles in any order.  A divider id may be the id of a
\* message that is not, or no longer, in the log.
Roles == {"user", "assistant"}
DividerIds == 1..(MaxHistory + 1)
DividerLists == UNION {[1..n -> DividerIds] : n \in 0..MaxDividers}
FiniteLengths == 0..MaxContextLength

VARIABLES
    activeControllers,  \* conversationId -> turn owning the registered controller
    aborted,            \* turn -> controller.signal.aborted
    pc,                 \* turn -> position of its sendMessage call
    input,              \* turn -> the fields of its ChatSendInput read after step 4
    accumulatedContent, \* turn -> chunk text accumulated by onEvent
    accumulatedReasoning,
    sseContent,         \* turn -> content accumulator inside streamSSE
    sseReasoning,
    stream,             \* turn -> state of the promise returned by streamSSE
    log,                \* conversationId -> JSONL message log
    index,              \* conversationId -> metadata record of conversations.json
    effects,            \* turn -> its side effects in program order
    request,            \* turn -> history handed to adapter.buildStreamRequest
    now,                \* the value of the last Date.now() read
    windowCall,         \* a call of filterHistory: its arguments and its result
    frames,             \* turn -> the frames streamSSE has read for it
    call                \* a call of a function with no state: its arguments and result

vars == <<activeControllers, aborted, pc, input, accumulatedContent,
          accumulatedReasoning, sseContent, sseReasoning, stream, log, index,
          effects, request, now, windowCall, frames, call>>

\* ------------------------------------------------------------ side effects
\* One entry of a turn's effect trace: a webContents.send on an IPC channel,
\* a store append, or the start of the network call.
Effect(op, c, delta, id, err) ==
    [op |-> op, conversationId |-> c, delta |-> delta, messageId |-> id, error |-> err]

SendChunk(c, d) == Effect("STREAM_CHUNK", c, d, NoId, "")
SendReasoning(c, d) == Effect("STREAM_REASONING", c, d, NoId, "")
SendComplete(c, id) == Effect("STREAM_COMPLETE", c, <<>>, id, "")
SendError(c, err) == Effect("STREAM_ERROR", c, <<>>, NoId, err)
StoreAppend(c, id) == Effect("appendMessage", c, <<>>, id, "")
Fetch(c) == Effect("fetch", c, <<>>, NoId, "")

\* ------------------------------------------------------ conversation store
\* appendMessage that writes the line twice.
appendMessage_Twice(l, id, message) == [l EXCEPT ![id] = Append(Append(@, message), message)]

\* appendMessage that overwrites the last line of the file.
appendMessage_ReplacesLast(l, id, message) ==
    [l EXCEPT ![id] = IF @ = <<>> THEN <<message>> ELSE [@ EXCEPT ![Len(@)] = message]]

\* appendMessage: one JSONL line appended to the conversation's file.
appendMessage(l, id, message) == [l EXCEPT ![id] = Append(@, message)]

\* getConversationMessages: every line of the file, in file order.
getConversationMessages(l, id) == l[id]

\* saveConversationMessages: the file rewritten with these lines.
saveConversationMessages(l, id, messages) == [l EXCEPT ![id] = messages]

\* Date.now(): the clock never runs backwards; since the last read it has
\* advanced by elapsed milliseconds, possibly none.
DateNow(elapsed) == now + elapsed

\* updateConversationMeta(id, {}): throws when id is not in the index,
\* otherwise rewrites the record with updatedAt = Date.now().
updateConversationMetaThrows(idx, id) == ~idx[id].present

updateConversationMeta(idx, id, elapsed) ==
    [idx EXCEPT ![id] = [present |-> TRUE, updatedAt |-> DateNow(elapsed)]]

\* The try { updateConversationMeta } catch {} of sendMessage.
TouchUpdatedAt(idx, id, elapsed) ==
    IF updateConversationMetaThrows(idx, id)
    THEN idx
    ELSE updateConversationMeta(idx, id, elapsed)

\* ------------------------------------------------------- history windowing
\* findIndex: the first position of the message with this id, 0 if none.
FindIndex(h, id) ==
    IF \E i \in 1..Len(h) : h[i].id = id
    THEN CHOOSE i \in 1..Len(h) : h[i].id = id /\ \A j \in 1..(i - 1) : h[j].id # id
    ELSE 0

\* A divider filter that trims nothing.
DividerTrim_Ignored(messageHistory, contextDividers) == messageHistory

\* The divider filter: keep what follows the LAST element of contextDividers.
DividerTrim(messageHistory, contextDividers) ==
    IF Len(contextDividers) > 0
    THEN LET dividerIndex == FindIndex(messageHistory, contextDividers[Len(contextDividers)])
         IN IF dividerIndex >= 1
            THEN SubSeq(messageHistory, dividerIndex + 1, Len(messageHistory))
            ELSE messageHistory
    ELSE messageHistory

\* The backwards loop breaking one round late (roundCount > contextLength).
RECURSIVE CollectRounds_BreakLate(_, _, _, _)
CollectRounds_BreakLate(filtered, i, roundCount, contextLength) ==
    IF i < 1 THEN <<>>
    ELSE LET msg == filtered[i]
             rc == IF msg.role = "user" THEN roundCount + 1 ELSE roundCount
         IN IF msg.role = "user" /\ rc > contextLength
            THEN <<msg>>
            ELSE CollectRounds_BreakLate(filtered, i - 1, rc, contextLength) \o <<msg>>

\* The backwards loop counting a round at every message, whatever its role.
RECURSIVE CollectRounds_CountsEveryMessage(_, _, _, _)
CollectRounds_CountsEveryMessage(filtered, i, roundCount, contextLength) ==
    IF i < 1 THEN <<>>
    ELSE LET msg == filtered[i]
             rc == roundCount + 1
         IN IF rc >= contextLength
            THEN <<msg>>
            ELSE CollectRounds_CountsEveryMessage(filtered, i - 1, rc, contextLength) \o <<msg>>

\* The backwards loop: unshift filtered[i], count a round at each user
\* message, break once roundCount >= contextLength.
RECURSIVE CollectRounds(_, _, _, _)
CollectRounds(filtered, i, roundCount, contextLength) ==
    IF i < 1 THEN <<>>
    ELSE LET msg == filtered[i]
             rc == IF msg.role = "user" THEN roundCount + 1 ELSE roundCount
         IN IF msg.role = "user" /\ rc >= contextLength
            THEN <<msg>>
            ELSE CollectRounds(filtered, i - 1, rc, contextLength) \o <<msg>>

\* filterHistory without the early return for contextLength 0.
filterHistory_NoZeroCase(messageHistory, contextDividers, contextLength) ==
    LET filtered == DividerTrim(messageHistory, contextDividers)
    IN IF contextLength >= 0
       THEN CollectRounds(filtered, Len(filtered), 0, contextLength)
       ELSE filtered

\* filterHistory that keeps one round when the context length is unlimited.
filterHistory_UnlimitedKeepsOneRound(messageHistory, contextDividers, contextLength) ==
    LET filtered == DividerTrim(messageHistory, contextDividers)
    IN IF contextLength >= 0
       THEN IF contextLength = 0 THEN <<>>
            ELSE CollectRounds(filtered, Len(filtered), 0, contextLength)
       ELSE CollectRounds(filtered, Len(filtered), 0, 1)

filterHistory(messageHistory, contextDividers, contextLength) ==
    LET filtered == DividerTrim(messageHistory, contextDividers)
    IN IF contextLength >= 0
       THEN IF contextLength = 0 THEN <<>>
            ELSE CollectRounds(filtered, Len(filtered), 0, contextLength)
       ELSE filtered

\* ----------------------------------------------------------------- messages
\* A ChatMessage without its createdAt and attachments, which no operation
\* modelled here reads.  An absent (undefined) string field is the empty
\* string <<>>, which is what `reasoning || undefined` stores for an empty
\* accumulator; an absent stopped flag is FALSE.
UserMessage(id, content) ==
    [id |-> id, role |-> "user", content |-> content,
     model |-> "", reasoning |-> <<>>, stopped |-> FALSE]

AssistantMessage(id, content, reasoning, modelId) ==
    [id |-> id, role |-> "assistant", content |-> content,
     model |-> modelId, reasoning |-> reasoning, stopped |-> FALSE]

\* A partial message saved without the accumulated reasoning.
PartialMessage_DropsReasoning(id, content, reasoning, modelId) ==
    [id |-> id, role |-> "assistant", content |-> content,
     model |-> modelId, reasoning |-> <<>>, stopped |-> TRUE]

PartialMessage(id, content, reasoning, modelId) ==
    [id |-> id, role |-> "assistant", content |-> content,
     model |-> modelId, reasoning |-> reasoning, stopped |-> TRUE]

\* ------------------------------------------------------------- sendMessage
\* The state a running call works on: the store, the id source and the
\* call's own effect trace; threw = an exception is propagating.
Local(t) ==
    [log |-> log, index |-> index, now |-> now, effects |-> effects[t],
     threw |-> FALSE]

\* randomUUID(): the k-th id drawn by call t; ids never repeat.  A call
\* draws one id for its user message and one for its assistant message.
randomUUID(t, k) == 2 * (t - 1) + k

\* ConfigError with the user message already persisted when the
\* configuration is checked.
ConfigError_AfterAppend(s, t, inp) ==
    [s EXCEPT !.log = appendMessage(@, inp.conversationId,
                                    UserMessage(randomUUID(t, 1), inp.userMessage)),
              !.effects = @ \o <<StoreAppend(inp.conversationId, randomUUID(t, 1)),
                                 SendError(inp.conversationId,
                                     IF inp.channel = "missing" THEN "channel not found"
                                     ELSE "decrypt failed")>>]

\* Steps 1-2: the channel lookup and the key decryption, each ending the
\* call with STREAM_ERROR.
ConfigError(s, t, inp) ==
    [s EXCEPT !.effects = @ \o <<SendError(inp.conversationId,
        IF inp.channel = "missing" THEN "channel not found" ELSE "decrypt failed")>>]

\* SaveUser that does not persist the message before the request is sent.
SaveUser_NotPersisted(s, t, inp, storeOk) ==
    IF storeOk THEN s ELSE [s EXCEPT !.threw = TRUE]

\* Step 3: the user message is appended; appendMessage throws when the
\* file append fails, and the exception leaves sendMessage.
SaveUser(s, t, inp, storeOk) ==
    LET userMsg == UserMessage(randomUUID(t, 1), inp.userMessage)
    IN IF storeOk
       THEN [s EXCEPT !.log = appendMessage(@, inp.conversationId, userMsg),
                      !.effects = @ \o <<StoreAppend(inp.conversationId, userMsg.id)>>]
       ELSE [s EXCEPT !.threw = TRUE]

\* Step 4 windowing the caller-supplied copy of the history.
FilteredHistory_TrustsCaller(s, inp) ==
    filterHistory(inp.messageHistory, inp.contextDividers, inp.contextLength)

\* Step 4: the history is read back from the store and windowed.
FilteredHistory(s, inp) ==
    filterHistory(getConversationMessages(s.log, inp.conversationId),
                  inp.contextDividers, inp.contextLength)

\* SaveAssistant that announces completion before the message is appended.
SaveAssistant_CompleteFirst(s, t, inp, storeOk, elapsed) ==
    LET c == inp.conversationId
        assistantMsgId == randomUUID(t, 2)
        assistantMsg == AssistantMessage(assistantMsgId, sseContent[t],
                                         sseReasoning[t], inp.modelId)
    IN IF storeOk
       THEN [s EXCEPT !.log = appendMessage(@, c, assistantMsg),
                      !.index = TouchUpdatedAt(@, c, elapsed),
                      !.now = IF updateConversationMetaThrows(s.index, c)
                              THEN @ ELSE DateNow(elapsed),
                      !.effects = @ \o <<SendComplete(c, assistantMsgId),
                                         StoreAppend(c, assistantMsgId)>>]
       ELSE [s EXCEPT !.effects = @ \o <<SendComplete(c, assistantMsgId)>>,
                      !.threw = TRUE]

\* SaveAssistant whose completion event carries no message id.
SaveAssistant_NoMessageId(s, t, inp, storeOk, elapsed) ==
    LET c == inp.conversationId
        assistantMsgId == randomUUID(t, 2)
        assistantMsg == AssistantMessage(assistantMsgId, sseContent[t],
                                         sseReasoning[t], inp.modelId)
    IN IF storeOk
       THEN [s EXCEPT !.log = appendMessage(@, c, assistantMsg),
                      !.index = TouchUpdatedAt(@, c, elapsed),
                      !.now = IF updateConversationMetaThrows(s.index, c)
                              THEN @ ELSE DateNow(elapsed),
                      !.effects = @ \o <<StoreAppend(c, assistantMsgId),
                                         SendComplete(c, NoId)>>]
       ELSE [s EXCEPT !.threw = TRUE]

\* SaveAssistant whose metadata update is not guarded by a try/catch.
SaveAssistant_MetaFailureThrows(s, t, inp, storeOk, elapsed) ==
    LET c == inp.conversationId
        assistantMsgId == randomUUID(t, 2)
        assistantMsg == AssistantMessage(assistantMsgId, sseContent[t],
                                         sseReasoning[t], inp.modelId)
    IN IF storeOk
       THEN IF updateConversationMetaThrows(s.index, c)
            THEN [s EXCEPT !.log = appendMessage(@, c, assistantMsg),
                           !.effects = @ \o <<StoreAppend(c, assistantMsgId)>>,
                           !.threw = TRUE]
            ELSE [s EXCEPT !.log = appendMessage(@, c, assistantMsg),
                           !.index = updateConversationMeta(@, c, elapsed),
                           !.now = DateNow(elapsed),
                           !.effects = @ \o <<StoreAppend(c, assistantMsgId),
                                              SendComplete(c, assistantMsgId)>>]
       ELSE [s EXCEPT !.threw = TRUE]

\* Step 7: after streamSSE resolved with {content, reasoning}.
SaveAssistant(s, t, inp, storeOk, elapsed) ==
    LET c == inp.conversationId
        assistantMsgId == randomUUID(t, 2)
        assistantMsg == AssistantMessage(assistantMsgId, sseContent[t],
                                         sseReasoning[t], inp.modelId)
    IN IF storeOk
       THEN [s EXCEPT !.log = appendMessage(@, c, assistantMsg),
                      !.index = TouchUpdatedAt(@, c, elapsed),
                      !.now = IF updateConversationMetaThrows(s.index, c)
                              THEN @ ELSE DateNow(elapsed),
                      !.effects = @ \o <<StoreAppend(c, assistantMsgId),
                                         SendComplete(c, assistantMsgId)>>]
       ELSE [s EXCEPT !.threw = TRUE]

\* CatchBlock without the `if (accumulatedContent)` test: an aborted call
\* always saves a partial message.
CatchBlock_AlwaysSavesPartial(s, t, inp, err, storeOk, elapsed) ==
    LET c == inp.conversationId
        assistantMsgId == randomUUID(t, 2)
        partialMsg == PartialMessage(assistantMsgId, accumulatedContent[t],
                                     accumulatedReasoning[t], inp.modelId)
    IN IF aborted[t]
       THEN IF storeOk
            THEN [s EXCEPT !.log = appendMessage(@, c, partialMsg),
                           !.index = TouchUpdatedAt(@, c, elapsed),
                           !.now = IF updateConversationMetaThrows(s.index, c)
                                   THEN @ ELSE DateNow(elapsed),
                           !.effects = @ \o <<StoreAppend(c, assistantMsgId),
                                              SendComplete(c, assistantMsgId)>>,
                           !.threw = FALSE]
            ELSE [s EXCEPT !.threw = TRUE]
       ELSE [s EXCEPT !.effects = @ \o <<SendError(c, err)>>, !.threw = FALSE]

\* CatchBlock that announces completion before it saves the partial message.
CatchBlock_CompleteBeforePartial(s, t, inp, err, storeOk, elapsed) ==
    LET c == inp.conversationId
        assistantMsgId == randomUUID(t, 2)
        partialMsg == PartialMessage(assistantMsgId, accumulatedContent[t],
                                     accumulatedReasoning[t], inp.modelId)
    IN IF aborted[t]
       THEN IF accumulatedContent[t] # <<>>
            THEN IF storeOk
                 THEN [s EXCEPT !.log = appendMessage(@, c, partialMsg),
                                !.index = TouchUpdatedAt(@, c, elapsed),
                                !.now = IF updateConversationMetaThrows(s.index, c)
                                        THEN @ ELSE DateNow(elapsed),
                                !.effects = @ \o <<SendComplete(c, assistantMsgId),
                                                   StoreAppend(c, assistantMsgId)>>,
                                !.threw = FALSE]
                 ELSE [s EXCEPT !.threw = TRUE]
            ELSE [s EXCEPT !.effects = @ \o <<SendComplete(c, NoId)>>, !.threw = FALSE]
       ELSE [s EXCEPT !.effects = @ \o <<SendError(c, err)>>, !.threw = FALSE]

\* The catch block, entered with the exception err of the try block.
CatchBlock(s, t, inp, err, storeOk, elapsed) ==
    LET c == inp.conversationId
        assistantMsgId == randomUUID(t, 2)
        partialMsg == PartialMessage(assistantMsgId, accumulatedContent[t],
                                     accumulatedReasoning[t], inp.modelId)
    IN IF aborted[t]
       THEN IF accumulatedContent[t] # <<>>
            THEN IF storeOk
                 THEN [s EXCEPT !.log = appendMessage(@, c, partialMsg),
                                !.index = TouchUpdatedAt(@, c, elapsed),
                                !.now = IF updateConversationMetaThrows(s.index, c)
                                        THEN @ ELSE DateNow(elapsed),
                                !.effects = @ \o <<StoreAppend(c, assistantMsgId),
                                                   SendComplete(c, assistantMsgId)>>,
                                !.threw = FALSE]
                 ELSE [s EXCEPT !.threw = TRUE]
            ELSE [s EXCEPT !.effects = @ \o <<SendComplete(c, NoId)>>, !.threw = FALSE]
       ELSE [s EXCEPT !.effects = @ \o <<SendError(c, err)>>, !.threw = FALSE]

\* A finally block that clears the whole registry.
Finally_ClearsRegistry(ac, c) == [d \in Convs |-> NoTurn]

\* A call that ends without the finally block.
Finally_KeepsEntry(ac, c) == ac

\* The finally block: activeControllers.delete(conversationId).
Finally(ac, c) == [ac EXCEPT ![c] = NoTurn]

\* How the call ended: its promise resolved or rejected.
Ended(s) == IF s.threw THEN "threw" ELSE "returned"

\* What a call writes back when it ends or suspends.
Commit(s, t, position) ==
    /\ log' = s.log
    /\ index' = s.index
    /\ now' = s.now
    /\ effects' = [effects EXCEPT ![t] = s.effects]
    /\ pc' = [pc EXCEPT ![t] = position]
    /\ UNCHANGED <<windowCall, frames, call>>

\* ------------------------------------------------------------------ actions
\* The input of a call as it keeps it: every field but channelId, which is
\* only read by steps 1-2.
Captured(inp) ==
    [conversationId |-> inp.conversationId, modelId |-> inp.modelId,
     userMessage |-> inp.userMessage, messageHistory |-> inp.messageHistory,
     contextLength |-> inp.contextLength, contextDividers |-> inp.contextDividers,
     provider |-> inp.provider]

NoInput ==
    [conversationId |-> "a", modelId |-> "m1", userMessage |-> <<>>,
     messageHistory |-> <<>>, contextLength |-> Infinite, contextDividers |-> <<>>,
     provider |-> "anthropic"]

\* The divider lists the callers of this specification pass.
DividerChoices(c) == {<<>>}

\* What the renderer's handleSend passes: an empty messageHistory.  The
\* channel of these sends is an Anthropic one.
Inputs ==
    UNION {[conversationId : {c}, channel : ChannelStates, modelId : ModelIds,
            userMessage : UserTexts, contextLength : ContextLengths,
            contextDividers : DividerChoices(c), messageHistory : {<<>>},
            provider : {"anthropic"}] : c \in Convs}

\* No call of a function with no state is under way.
NoArgs == [returned |-> FALSE]

\* No filterHistory call under observation.
NoCall ==
    [messageHistory |-> <<>>, contextDividers |-> <<>>, contextLength |-> Infinite,
     returned |-> FALSE, filteredHistory |-> <<>>]

Init ==
    /\ activeControllers = [c \in Convs |-> NoTurn]
    /\ aborted = [t \in Turns |-> FALSE]
    /\ pc = [t \in Turns |-> "idle"]
    /\ input = [t \in Turns |-> NoInput]
    /\ accumulatedContent = [t \in Turns |-> <<>>]
    /\ accumulatedReasoning = [t \in Turns |-> <<>>]
    /\ sseContent = [t \in Turns |-> <<>>]
    /\ sseReasoning = [t \in Turns |-> <<>>]
    /\ stream = [t \in Turns |-> "none"]
    /\ log = [c \in Convs |-> <<>>]
    /\ index = [c \in Convs |-> IF c = "a" THEN [present |-> TRUE, updatedAt |-> 0]
                                ELSE Absent]
    /\ effects = [t \in Turns |-> <<>>]
    /\ request = [t \in Turns |-> <<>>]
    /\ now = 1
    /\ windowCall = NoCall
    /\ frames = [t \in Turns |-> <<>>]
    /\ call = NoArgs

\* The shape of the state.
TypeOK ==
    /\ activeControllers \in [Convs -> Turns \cup {NoTurn}]
    /\ aborted \in [Turns -> BOOLEAN]
    /\ pc \in [Turns -> {"idle", "streaming", "returned", "threw"}]
    /\ stream \in [Turns -> {"none", "open", "resolved", "rejected"}]
    /\ \A t \in Turns :
          /\ input[t].conversationId \in Convs /\ input[t].modelId \in ModelIds
          /\ accumulatedContent[t] = sseContent[t]
          /\ accumulatedReasoning[t] = sseReasoning[t]
          /\ (pc[t] = "streaming") = (stream[t] = "open")
    /\ \A c \in Convs :
          /\ index[c].present \in BOOLEAN /\ index[c].updatedAt \in 0..now
          /\ \A i \in 1..Len(log[c]) : log[c][i].role \in {"user", "assistant"}
    /\ now \in Nat
    /\ windowCall.returned \in BOOLEAN
    /\ \A t \in Turns : Len(frames[t]) \in Nat
    /\ call.returned \in BOOLEAN

\* sendMessage from its call to its first suspension (await streamSSE) or
\* to its end: steps 1-6.  storeOk: the user-message append succeeds;
\* requestOk: getAdapter / buildStreamRequest do not throw.
SendMessage(t, inp, storeOk, requestOk) ==
    /\ pc[t] = "idle"
    /\ \A u \in 1..(t - 1) : pc[u] # "idle"
    /\ input' = [input EXCEPT ![t] = Captured(inp)]
    /\ UNCHANGED <<aborted, accumulatedContent, accumulatedReasoning, sseContent,
                   sseReasoning>>
    /\ LET c == inp.conversationId
           s0 == Local(t)
           s1 == SaveUser(s0, t, inp, storeOk)
           registered == [activeControllers EXCEPT ![c] = t]
       IN IF inp.channel # "ok"
          THEN /\ Commit(ConfigError(s0, t, inp), t, "returned")
               /\ UNCHANGED <<activeControllers, request, stream>>
          ELSE IF s1.threw
          THEN /\ Commit(s1, t, "threw")
               /\ UNCHANGED <<activeControllers, request, stream>>
          ELSE /\ request' = [request EXCEPT ![t] = FilteredHistory(s1, inp)]
               /\ IF requestOk
                  THEN /\ activeControllers' = registered
                       /\ stream' = [stream EXCEPT ![t] = "open"]
                       /\ Commit([s1 EXCEPT !.effects = @ \o <<Fetch(c)>>], t, "streaming")
                  ELSE /\ activeControllers' = Finally(registered, c)
                       /\ UNCHANGED stream
                       /\ Commit(CatchBlock([s1 EXCEPT !.threw = TRUE], t, inp,
                                            "request failed", TRUE, 0), t, "returned")

\* The stream events streamSSE has relayed to call t, and the text of the
\* next one: the k-th event of a stream carries the token k.
\* ------------------------------------------------------- stream frames
\* The JSON payload of one frame, as far as the adapters look at it.
\* json: what JSON.parse makes of the line; text / thinking / a part's text:
\* <<>> is a missing or empty string (both falsy).
NoFields ==
    [json |-> "object", type |-> "", error |-> FALSE, hasDelta |-> FALSE,
     deltaType |-> "", text |-> <<>>, thinking |-> <<>>,
     hasParts |-> FALSE, parts |-> <<>>]

InvalidJson == [NoFields EXCEPT !.json = "invalid"]
JsonNull == [NoFields EXCEPT !.json = "null"]

\* Anthropic frames.
TextDelta(d) ==
    [NoFields EXCEPT !.type = "content_block_delta", !.hasDelta = TRUE,
                     !.deltaType = "text_delta", !.text = d]
ThinkingDelta(d) ==
    [NoFields EXCEPT !.type = "content_block_delta", !.hasDelta = TRUE,
                     !.deltaType = "thinking_delta", !.thinking = d]
DeltaWithoutText == TextDelta(<<>>)
DeltaMissing == [NoFields EXCEPT !.type = "content_block_delta"]
MessageStop == [NoFields EXCEPT !.type = "message_stop"]
AnthropicError == [NoFields EXCEPT !.type = "error", !.error = TRUE]

\* Google frames: candidates[0].content.parts.
Part(d, thought) == [isNull |-> FALSE, text |-> d, thought |-> thought]
NullPart == [isNull |-> TRUE, text |-> <<>>, thought |-> FALSE]
Candidate(parts) == [NoFields EXCEPT !.hasParts = TRUE, !.parts = parts]
GoogleError == [NoFields EXCEPT !.error = TRUE]

\* Stream events.
ChunkEvent(d) == [type |-> "chunk", delta |-> d]
ReasoningEvent(d) == [type |-> "reasoning", delta |-> d]

Returns(events) == [threw |-> FALSE, events |-> events]
Throws == [threw |-> TRUE, events |-> <<>>]

\* The try block of AnthropicAdapter.parseSSELine.
Anthropic_parseSSELine_Try(jsonLine) ==
    IF jsonLine.json = "invalid" THEN Throws            \* JSON.parse throws
    ELSE IF jsonLine.json = "null" THEN Throws          \* event.type of null
    ELSE IF jsonLine.type = "content_block_delta"
         THEN IF /\ jsonLine.hasDelta /\ jsonLine.deltaType = "thinking_delta"
                 /\ jsonLine.thinking # <<>>
              THEN Returns(<<ReasoningEvent(jsonLine.thinking)>>)
              ELSE IF jsonLine.hasDelta /\ jsonLine.text # <<>>
                   THEN Returns(<<ChunkEvent(jsonLine.text)>>)
                   ELSE Returns(<<>>)
         ELSE Returns(<<>>)

\* AnthropicAdapter.parseSSELine without its catch.
Anthropic_parseSSELine_NoCatch(jsonLine) == Anthropic_parseSSELine_Try(jsonLine)

\* AnthropicAdapter.parseSSELine: the try block; the catch returns [].
Anthropic_parseSSELine(jsonLine) ==
    IF Anthropic_parseSSELine_Try(jsonLine).threw THEN Returns(<<>>)
    ELSE Anthropic_parseSSELine_Try(jsonLine)

\* The loop over parts of GoogleAdapter.parseSSELine, from part i on.
RECURSIVE GoogleParts(_, _, _)
GoogleParts(parts, i, events) ==
    IF i > Len(parts) THEN Returns(events)
    ELSE IF parts[i].isNull THEN Throws                 \* part.text of null
    ELSE IF parts[i].text = <<>> THEN GoogleParts(parts, i + 1, events)
    ELSE IF parts[i].thought
         THEN GoogleParts(parts, i + 1, Append(events, ReasoningEvent(parts[i].text)))
         ELSE GoogleParts(parts, i + 1, Append(events, ChunkEvent(parts[i].text)))

\* The try block of GoogleAdapter.parseSSELine.
Google_parseSSELine_Try(jsonLine) ==
    IF jsonLine.json = "invalid" THEN Throws            \* JSON.parse throws
    ELSE IF jsonLine.json = "null" THEN Throws          \* parsed.candidates of null
    ELSE IF ~jsonLine.hasParts THEN Returns(<<>>)
    ELSE GoogleParts(jsonLine.parts, 1, <<>>)

\* GoogleAdapter.parseSSELine: the try block; the catch returns [].
Google_parseSSELine(jsonLine) ==
    IF Google_parseSSELine_Try(jsonLine).threw THEN Returns(<<>>)
    ELSE Google_parseSSELine_Try(jsonLine)

\* adapter.parseSSELine of the adapter getAdapter gives for the provider.
parseSSELine(provider, jsonLine) ==
    IF provider = "google" THEN Google_parseSSELine(jsonLine)
    ELSE Anthropic_parseSSELine(jsonLine)

\* streamSSE fails on a frame: its parse threw, or gave an error event.
FrameFails(provider, jsonLine) ==
    LET p == parseSSELine(provider, jsonLine)
    IN p.threw \/ \E i \in 1..Len(p.events) : p.events[i].type = "error"

\* streamSSE has failed on one of the frames it read for turn t.
StreamFailed(t) ==
    \E i \in 1..Len(frames[t]) : FrameFails(input[t].provider, frames[t][i])

Delivered(t) == Len(sseContent[t]) + Len(sseReasoning[t])
NextDelta(t) == <<Delivered(t) + 1>>

RECURSIVE DeliveredUpTo(_)
DeliveredUpTo(n) == IF n = 0 THEN 0 ELSE Delivered(n) + DeliveredUpTo(n - 1)

\* onEvent for a chunk event relayed by streamSSE.
OnChunk(t, d) ==
    /\ pc[t] = "streaming"
    /\ DeliveredUpTo(MaxTurns) < MaxDeltas
    /\ sseContent' = [sseContent EXCEPT ![t] = @ \o d]
    /\ accumulatedContent' = [accumulatedContent EXCEPT ![t] = @ \o d]
    /\ effects' = [effects EXCEPT ![t] = Append(@, SendChunk(input[t].conversationId, d))]
    /\ UNCHANGED <<activeControllers, aborted, pc, input, accumulatedReasoning,
                   sseReasoning, stream, log, index, request, now, windowCall, frames, call>>

\* onEvent for a reasoning event relayed by streamSSE.
OnReasoning(t, d) ==
    /\ pc[t] = "streaming"
    /\ DeliveredUpTo(MaxTurns) < MaxDeltas
    /\ sseReasoning' = [sseReasoning EXCEPT ![t] = @ \o d]
    /\ accumulatedReasoning' = [accumulatedReasoning EXCEPT ![t] = @ \o d]
    /\ effects' = [effects EXCEPT ![t] = Append(@, SendReasoning(input[t].conversationId, d))]
    /\ UNCHANGED <<activeControllers, aborted, pc, input, accumulatedContent,
                   sseContent, stream, log, index, request, now, windowCall, frames, call>>

\* What onEvent does with the events of one frame, from event i on.
RECURSIVE onEvent(_, _, _, _)
onEvent(s, c, events, i) ==
    IF i > Len(events) THEN s
    ELSE IF events[i].type = "chunk"
         THEN onEvent([s EXCEPT !.content = @ \o events[i].delta,
                                !.effects = Append(@, SendChunk(c, events[i].delta))],
                      c, events, i + 1)
    ELSE IF events[i].type = "reasoning"
         THEN onEvent([s EXCEPT !.reasoning = @ \o events[i].delta,
                                !.effects = Append(@, SendReasoning(c, events[i].delta))],
                      c, events, i + 1)
    ELSE onEvent(s, c, events, i + 1)

RECURSIVE FramesUpTo(_)
FramesUpTo(n) == IF n = 0 THEN 0 ELSE Len(frames[n]) + FramesUpTo(n - 1)

\* The frames the backend of turn t may send next.
FrameChoices(t) ==
    LET d1 == NextDelta(t)
        d2 == <<Delivered(t) + 2>>
    IN {InvalidJson, JsonNull} \cup
       IF input[t].provider = "google"
       THEN {Candidate(<<Part(d1, FALSE)>>), Candidate(<<Part(d1, TRUE), Part(d2, FALSE)>>),
             Candidate(<<Part(<<>>, FALSE)>>), Candidate(<<Part(d1, FALSE), NullPart>>),
             NoFields, GoogleError}
       ELSE {TextDelta(d1), ThinkingDelta(d1), DeltaWithoutText, DeltaMissing,
             MessageStop, AnthropicError}

\* streamSSE reads one frame: parseSSELine, then onEvent for each chunk and
\* reasoning event; a frame it fails on is relayed no further.
OnFrame(t, jsonLine) ==
    LET p == parseSSELine(input[t].provider, jsonLine)
        events == IF FrameFails(input[t].provider, jsonLine) THEN <<>> ELSE p.events
        s == onEvent([content |-> accumulatedContent[t],
                      reasoning |-> accumulatedReasoning[t],
                      effects |-> effects[t]],
                     input[t].conversationId, events, 1)
    IN /\ pc[t] = "streaming"
       /\ ~StreamFailed(t)
       /\ FramesUpTo(MaxTurns) < MaxFrames
       /\ DeliveredUpTo(MaxTurns) + Len(events) <= MaxDeltas
       /\ frames' = [frames EXCEPT ![t] = Append(@, jsonLine)]
       /\ accumulatedContent' = [accumulatedContent EXCEPT ![t] = s.content]
       /\ sseContent' = [sseContent EXCEPT ![t] = s.content]
       /\ accumulatedReasoning' = [accumulatedReasoning EXCEPT ![t] = s.reasoning]
       /\ sseReasoning' = [sseReasoning EXCEPT ![t] = s.reasoning]
       /\ effects' = [effects EXCEPT ![t] = s.effects]
       /\ UNCHANGED <<activeControllers, aborted, pc, input, stream, log, index,
                      request, now, windowCall, call>>

\* streamSSE resolves (the stream ended, its token was not triggered and it
\* failed on no frame):
\* the rest of the try block, the catch block if the append throws, finally.
StreamResolve(t, storeOk, elapsed) ==
    /\ pc[t] = "streaming"
    /\ ~aborted[t]
    /\ ~StreamFailed(t)
    /\ stream' = [stream EXCEPT ![t] = "resolved"]
    /\ LET s1 == SaveAssistant(Local(t), t, input[t], storeOk, elapsed)
           s2 == IF s1.threw
                 THEN CatchBlock(s1, t, input[t], "append failed", TRUE, 0)
                 ELSE s1
       IN /\ Commit(s2, t, Ended(s2))
          /\ activeControllers' = Finally(activeControllers, input[t].conversationId)
    /\ UNCHANGED <<aborted, input, accumulatedContent, accumulatedReasoning,
                   sseContent, sseReasoning, request>>

\* streamSSE rejects (transport error, HTTP error status, backend error
\* frame, or the triggered token): the catch block, then finally.
StreamReject(t, storeOk, elapsed) ==
    /\ pc[t] = "streaming"
    /\ stream' = [stream EXCEPT ![t] = "rejected"]
    /\ LET s1 == CatchBlock([Local(t) EXCEPT !.threw = TRUE], t, input[t],
                            "stream failed", storeOk, elapsed)
       IN /\ Commit(s1, t, Ended(s1))
          /\ activeControllers' = Finally(activeControllers, input[t].conversationId)
    /\ UNCHANGED <<aborted, input, accumulatedContent, accumulatedReasoning,
                   sseContent, sseReasoning, request>>

\* stopGeneration that aborts the controller and leaves its registry entry.
stopGeneration_KeepsEntry(ac, ab, conversationId) ==
    LET controller == ac[conversationId]
    IN IF controller # NoTurn
       THEN [activeControllers |-> ac, aborted |-> [ab EXCEPT ![controller] = TRUE]]
       ELSE [activeControllers |-> ac, aborted |-> ab]

\* stopGeneration that, finding no entry, aborts every started call of the
\* conversation.
stopGeneration_AbortsWithoutEntry(ac, ab, conversationId) ==
    LET controller == ac[conversationId]
    IN IF controller # NoTurn
       THEN [activeControllers |-> [ac EXCEPT ![conversationId] = NoTurn],
             aborted |-> [ab EXCEPT ![controller] = TRUE]]
       ELSE [activeControllers |-> ac,
             aborted |-> [t \in Turns |->
                            ab[t] \/ (pc[t] # "idle" /\ input[t].conversationId = conversationId)]]

\* stopGeneration that aborts every started call of the conversation, not
\* only the registered one.
stopGeneration_AbortsEveryTurn(ac, ab, conversationId) ==
    LET controller == ac[conversationId]
    IN IF controller # NoTurn
       THEN [activeControllers |-> [ac EXCEPT ![conversationId] = NoTurn],
             aborted |-> [t \in Turns |->
                            ab[t] \/ (pc[t] # "idle" /\ input[t].conversationId = conversationId)]]
       ELSE [activeControllers |-> ac, aborted |-> ab]

\* stopGeneration(conversationId) on the registry ac and the abort flags ab:
\* `if (controller) { controller.abort(); activeControllers.delete(id) }`.
stopGeneration(ac, ab, conversationId) ==
    LET controller == ac[conversationId]
    IN IF controller # NoTurn
       THEN [activeControllers |-> [ac EXCEPT ![conversationId] = NoTurn],
             aborted |-> [ab EXCEPT ![controller] = TRUE]]
       ELSE [activeControllers |-> ac, aborted |-> ab]

\* The STOP_GENERATION handler: one call of stopGeneration.
StopGeneration(c) ==
    /\ LET r == stopGeneration(activeControllers, aborted, c)
       IN /\ activeControllers' = r.activeControllers
          /\ aborted' = r.aborted
    /\ UNCHANGED <<pc, input, accumulatedContent, accumulatedReasoning, sseContent,
                   sseReasoning, stream, log, index, effects, request, now, windowCall, frames, call>>

Next ==
    \/ \E t \in Turns, inp \in Inputs, storeOk \in BOOLEAN, requestOk \in BOOLEAN :
          SendMessage(t, inp, storeOk, requestOk)
    \/ \E t \in Turns : OnChunk(t, NextDelta(t))
    \/ \E t \in Turns : OnReasoning(t, NextDelta(t))
    \/ \E t \in Turns, storeOk \in BOOLEAN, elapsed \in Elapsed : StreamResolve(t, storeOk, elapsed)
    \/ \E t \in Turns, storeOk \in BOOLEAN, elapsed \in Elapsed : StreamReject(t, storeOk, elapsed)
    \/ \E c \in Convs : StopGeneration(c)

Spec == Init /\ [][Next]_vars

\* ------------------------------------------- deleting stored messages
\* deleteMessage: the log without the message of this id; nothing is
\* written when no message has the id.
deleteMessage(l, conversationId, messageId) ==
    LET messages == getConversationMessages(l, conversationId)
        filtered == SelectSeq(messages, LAMBDA msg : msg.id # messageId)
    IN IF Len(filtered) = Len(messages) THEN l
       ELSE saveConversationMessages(l, conversationId, filtered)

\* truncateMessagesFrom: the log up to, not including, the message of this
\* id; nothing is written when no message has the id.
truncateMessagesFrom(l, conversationId, messageId) ==
    LET messages == getConversationMessages(l, conversationId)
        startIndex == FindIndex(messages, messageId)
    IN IF startIndex = 0 THEN l
       ELSE saveConversationMessages(l, conversationId, SubSeq(messages, 1, startIndex - 1))

\* The ids a caller may name: every id a call can draw, and one no message has.
MessageIds == {randomUUID(t, k) : t \in Turns, k \in {1, 2}} \cup {NoId}

\* The ids the renderer names: those of the messages it shows, and one
\* that no stored message has (a message removed since it was shown).
NamedIds(c) == {log[c][i].id : i \in 1..Len(log[c])} \cup {NoId}

\* The DELETE_MESSAGE handler; saveOk: the rewrite of the file succeeds
\* (when it throws the file is left as it was).
DeleteMessage(c, messageId, saveOk) ==
    /\ log' = IF saveOk THEN deleteMessage(log, c, messageId) ELSE log
    /\ UNCHANGED <<activeControllers, aborted, pc, input, accumulatedContent,
                   accumulatedReasoning, sseContent, sseReasoning, stream, index,
                   effects, request, now, windowCall, frames, call>>

\* The TRUNCATE_MESSAGES_FROM handler.
TruncateMessagesFrom(c, messageId, saveOk) ==
    /\ log' = IF saveOk THEN truncateMessagesFrom(log, c, messageId) ELSE log
    /\ UNCHANGED <<activeControllers, aborted, pc, input, accumulatedContent,
                   accumulatedReasoning, sseContent, sseReasoning, stream, index,
                   effects, request, now, windowCall, frames, call>>

\* Sends, stream events, completions and stops of one conversation whose
\* store appends succeed, interleaved with deletions and truncations.
StoreInputs ==
    [conversationId : {"a"}, channel : {"ok"}, modelId : ModelIds,
     userMessage : UserTexts, contextLength : ContextLengths,
     contextDividers : {<<>>}, messageHistory : {<<>>}, provider : {"anthropic"}]

NextStore ==
    \/ \E t \in Turns, inp \in StoreInputs : SendMessage(t, inp, TRUE, TRUE)
    \/ \E t \in Turns : OnChunk(t, NextDelta(t))
    \/ \E t \in Turns : StreamResolve(t, TRUE, 0)
    \/ \E t \in Turns : StreamReject(t, TRUE, 0)
    \/ StopGeneration("a")
    \/ \E id \in NamedIds("a"), saveOk \in BOOLEAN : DeleteMessage("a", id, saveOk)
    \/ \E id \in NamedIds("a"), saveOk \in BOOLEAN : TruncateMessagesFrom("a", id, saveOk)

StoreSpec == Init /\ [][NextStore]_vars

\* ------------------------------------------------- frames of a stream
\* Sends to either backend, one after the other has ended, whose streams
\* are read frame by frame.
FrameInputs ==
    [conversationId : {"a"}, channel : {"ok"}, modelId : ModelIds,
     userMessage : UserTexts, contextLength : ContextLengths,
     contextDividers : {<<>>}, messageHistory : {<<>>},
     provider : {"anthropic", "google"}]

NextFrames ==
    \/ \E t \in Turns, inp \in FrameInputs :
          /\ \A u \in Turns : pc[u] # "streaming"
          /\ \A u \in Turns : u < t => pc[u] # "idle"
          /\ SendMessage(t, inp, TRUE, TRUE)
    \/ \E t \in Turns : \E jsonLine \in FrameChoices(t) : OnFrame(t, jsonLine)
    \/ \E t \in Turns : StreamResolve(t, TRUE, 0)
    \/ \E t \in Turns : StreamReject(t, TRUE, 0)

FrameSpec == Init /\ [][NextFrames]_vars

\* --------------------------------------------------- calls without state
\* Every variable but call, and the state in which nothing has been sent.
others == <<activeControllers, aborted, pc, input, accumulatedContent,
            accumulatedReasoning, sseContent, sseReasoning, stream, log, index,
            effects, request, now, windowCall, frames>>

Quiescent ==
    /\ activeControllers = [c \in Convs |-> NoTurn]
    /\ aborted = [t \in Turns |-> FALSE]
    /\ pc = [t \in Turns |-> "idle"]
    /\ input = [t \in Turns |-> NoInput]
    /\ accumulatedContent = [t \in Turns |-> <<>>]
    /\ accumulatedReasoning = [t \in Turns |-> <<>>]
    /\ sseContent = [t \in Turns |-> <<>>]
    /\ sseReasoning = [t \in Turns |-> <<>>]
    /\ stream = [t \in Turns |-> "none"]
    /\ log = [c \in Convs |-> <<>>]
    /\ index = [c \in Convs |-> Absent]
    /\ effects = [t \in Turns |-> <<>>]
    /\ request = [t \in Turns |-> <<>>]
    /\ now = 1
    /\ windowCall = NoCall
    /\ frames = [t \in Turns |-> <<>>]

\* ------------------------------------------------------ parsing one line
\* The strings a frame carries: none or empty, or one of two fragments.
Fragments == {<<>>, <<1>>, <<2>>}

RECURSIVE SeqsUpTo(_, _)
SeqsUpTo(S, n) ==
    IF n = 0 THEN {<<>>}
    ELSE SeqsUpTo(S, n - 1) \cup
         {Append(q, x) : q \in {r \in SeqsUpTo(S, n - 1) : Len(r) = n - 1}, x \in S}

PartChoices == {NullPart} \cup {Part(d, thought) : d \in Fragments, thought \in BOOLEAN}

\* The lines handed to parseSSELine.
ParseLines ==
    {InvalidJson, JsonNull, GoogleError}
    \cup {[NoFields EXCEPT !.type = type] :
             type \in {"content_block_delta", "message_stop", "error"}}
    \cup {[NoFields EXCEPT !.type = type, !.hasDelta = TRUE, !.deltaType = deltaType,
                           !.text = text, !.thinking = thinking] :
             type \in {"content_block_delta", "message_stop", "error"},
             deltaType \in {"text_delta", "thinking_delta"},
             text \in Fragments, thinking \in Fragments}
    \cup {Candidate(parts) : parts \in SeqsUpTo(PartChoices, MaxParts)}

InitParse ==
    /\ Quiescent
    /\ call \in [provider : {"anthropic", "google"}, jsonLine : ParseLines,
                 returned : {FALSE}, result : {Returns(<<>>)}]

\* adapter.parseSSELine(jsonLine) returns.
ParseSSELine ==
    /\ ~call.returned
    /\ call' = [call EXCEPT !.returned = TRUE,
                            !.result = parseSSELine(call.provider, call.jsonLine)]
    /\ UNCHANGED others

ParseSpec == InitParse /\ [][ParseSSELine]_vars

\* ------------------------------------------------------- generateTitle
\* A text is a sequence of characters.
MAX_TITLE_LENGTH == 20

QuoteChars == {"\"", "'"}

RECURSIVE TrimStart(_)
TrimStart(str) ==
    IF str # <<>> /\ Head(str) = " " THEN TrimStart(Tail(str)) ELSE str

RECURSIVE TrimEnd(_)
TrimEnd(str) ==
    IF str # <<>> /\ str[Len(str)] = " " THEN TrimEnd(SubSeq(str, 1, Len(str) - 1))
    ELSE str

\* String.prototype.trim
trim(str) == TrimEnd(TrimStart(str))

RECURSIVE StripStart(_)
StripStart(str) ==
    IF str # <<>> /\ Head(str) \in QuoteChars THEN StripStart(Tail(str)) ELSE str

RECURSIVE StripEnd(_)
StripEnd(str) ==
    IF str # <<>> /\ str[Len(str)] \in QuoteChars
    THEN StripEnd(SubSeq(str, 1, Len(str) - 1))
    ELSE str

\* replace(/^["']+|["']+$/g, ''): the run of quotes at the start and the run
\* at the end are removed.
StripQuotes(str) == StripEnd(StripStart(str))

\* slice(0, n)
slice(str, n) == SubSeq(str, 1, IF Len(str) < n THEN Len(str) ELSE n)

\* The result of generateTitle: null, or a title.
Null == [null |-> TRUE, title |-> <<>>, threw |-> FALSE]
Title(str) == [null |-> FALSE, title |-> str, threw |-> FALSE]

\* title.trim().replace(...).trim() without the replace.
cleaned_KeepsQuotes(title) == trim(trim(title))

\* const cleaned = title.trim().replace(...).trim()
cleaned(title) == trim(StripQuotes(trim(title)))

\* generateTitle that returns the cleaned, sliced text even when it is empty.
generateTitle_ReturnsEmpty(channel, fetched, title) ==
    IF channel = "missing" THEN Null
    ELSE IF channel = "undecryptable" THEN Null
    ELSE IF fetched = "throws" THEN Null
    ELSE IF fetched = "null" \/ title = <<>> THEN Null
    ELSE Title(slice(cleaned(title), MAX_TITLE_LENGTH))

\* generateTitle.  channel: what the lookup and the decryption of the key
\* give; fetched: fetchTitle (or getAdapter / buildTitleRequest) throws,
\* gives null, or gives the text title.
generateTitle(channel, fetched, title) ==
    IF channel = "missing" THEN Null
    ELSE IF channel = "undecryptable" THEN Null
    ELSE IF fetched = "throws" THEN Null
    ELSE IF fetched = "null" \/ title = <<>> THEN Null
    ELSE IF slice(cleaned(title), MAX_TITLE_LENGTH) = <<>> THEN Null
    ELSE Title(slice(cleaned(title), MAX_TITLE_LENGTH))

MyTripPlan == <<"M", "y", " ", "T", "r", "i", "p", " ", "P", "l", "a", "n">>

\* The texts between the quotes of a response: none, a short title, one
\* with a quote and a space inside, one longer than the maximum.
TitleBodies ==
    {<<>>, MyTripPlan, <<"a", "'", " ", "b">>,
     [i \in 1..(MAX_TITLE_LENGTH + 5) |-> IF i = MAX_TITLE_LENGTH THEN " " ELSE "x"]}

Spaces == {<<>>, <<" ">>}

\* The response texts: a body in any quotes and any spaces around them.
TitleTexts ==
    {s1 \o q1 \o body \o q2 \o s2 :
        s1 \in Spaces, q1 \in SeqsUpTo(QuoteChars, MaxQuotes), body \in TitleBodies,
        q2 \in SeqsUpTo(QuoteChars, MaxQuotes), s2 \in Spaces}

InitTitle ==
    /\ Quiescent
    /\ call \in [channel : ChannelStates, fetched : {"ok", "throws", "null"},
                 title : TitleTexts, returned : {FALSE}, result : {Null}]

\* generateTitle(input) settles.
GenerateTitle ==
    /\ ~call.returned
    /\ call' = [call EXCEPT !.returned = TRUE,
                            !.result = generateTitle(call.channel, call.fetched, call.title)]
    /\ UNCHANGED others

TitleSpec == InitTitle /\ [][GenerateTitle]_vars

\* ------------------------------------------------ sends as the UI issues them
\* The renderer sends for a conversation only while it is not streaming:
\* after the terminal event of the previous turn, or after handleStop, which
\* clears the streaming flag at once and then calls stopGeneration.
SendAllowed(t, c) ==
    /\ \A u \in Turns : u < t => pc[u] # "idle"
    /\ \A u \in Turns : (pc[u] # "idle" /\ input[u].conversationId = c) =>
                            (pc[u] \in {"returned", "threw"} \/ aborted[u])

NextUI ==
    \/ \E t \in Turns, inp \in StoreInputs :
          SendAllowed(t, inp.conversationId) /\ SendMessage(t, inp, TRUE, TRUE)
    \/ \E t \in Turns : OnChunk(t, NextDelta(t))
    \/ \E t \in Turns : OnReasoning(t, NextDelta(t))
    \/ \E t \in Turns : StreamResolve(t, TRUE, 0)
    \/ \E t \in Turns : StreamReject(t, TRUE, 0)
    \/ StopGeneration("a")

UISpec == Init /\ [][NextUI]_vars

\* --------------------------------------------------- deleting a conversation
\* deleteConversation: throws when the index has no entry; otherwise removes
\* the entry and unlinks the message file, if there is one.  unlinkOk: the
\* unlink succeeds (its failure is logged and swallowed).
deleteConversation(idx, l, id, unlinkOk) ==
    IF ~idx[id].present
    THEN [threw |-> TRUE, index |-> idx, log |-> l]
    ELSE [threw |-> FALSE,
          index |-> [idx EXCEPT ![id] = Absent],
          log |-> IF l[id] # <<>> /\ unlinkOk THEN [l EXCEPT ![id] = <<>>] ELSE l]

\* The DELETE_CONVERSATION handler.
DeleteConversation(c, unlinkOk) ==
    /\ index' = deleteConversation(index, log, c, unlinkOk).index
    /\ log' = deleteConversation(index, log, c, unlinkOk).log
    /\ UNCHANGED <<activeControllers, aborted, pc, input, accumulatedContent,
                   accumulatedReasoning, sseContent, sseReasoning, stream,
                   effects, request, now, windowCall, frames, call>>

\* Turns of conversation a, stops, and its deletion.
NextDelete ==
    \/ \E t \in Turns, inp \in StoreInputs : SendMessage(t, inp, TRUE, TRUE)
    \/ \E t \in Turns : OnChunk(t, NextDelta(t))
    \/ \E t \in Turns : StreamResolve(t, TRUE, 0)
    \/ \E t \in Turns : StreamReject(t, TRUE, 0)
    \/ StopGeneration("a")
    \/ \E unlinkOk \in BOOLEAN : DeleteConversation("a", unlinkOk)

DeleteSpec == Init /\ [][NextDelete]_vars

\* ------------------------------------------------------ request building
\* history.filter((msg) => msg.role !== 'system')
NonSystem(history) == SelectSeq(history, LAMBDA msg : msg.role # "system")

\* toAnthropicMessages that does not filter the history.
toAnthropicMessages_NoFilter(history, userMessage) ==
    [i \in 1..Len(history) |->
        [role |-> IF history[i].role = "assistant" THEN "assistant" ELSE "user",
         content |-> history[i].content]]
    \o <<[role |-> "user", content |-> userMessage]>>

\* toAnthropicMessages / toGoogleContents without attachments: the history
\* without its system messages and with roles relabelled, then the current
\* user message.  A Google part list [{text}] is its text.
toAnthropicMessages(history, userMessage) ==
    [i \in 1..Len(NonSystem(history)) |->
        [role |-> IF NonSystem(history)[i].role = "assistant" THEN "assistant" ELSE "user",
         content |-> NonSystem(history)[i].content]]
    \o <<[role |-> "user", content |-> userMessage]>>

toGoogleContents(history, userMessage) ==
    [i \in 1..Len(NonSystem(history)) |->
        [role |-> IF NonSystem(history)[i].role = "assistant" THEN "model" ELSE "user",
         content |-> NonSystem(history)[i].content]]
    \o <<[role |-> "user", content |-> userMessage]>>

\* The body of buildStreamRequest as far as messages and the system prompt
\* go: body.system / body.systemInstruction is set only for a non-empty
\* systemMessage.
Body(messages, systemMessage) ==
    [messages |-> messages, hasSystem |-> systemMessage # <<>>,
     system |-> systemMessage]

Anthropic_buildStreamRequest(history, userMessage, systemMessage) ==
    Body(toAnthropicMessages(history, userMessage), systemMessage)

Google_buildStreamRequest(history, userMessage, systemMessage) ==
    Body(toGoogleContents(history, userMessage), systemMessage)

\* A history message as the adapters read it: its role and its content.
RequestMessage(i, role) == [UserMessage(i, <<i>>) EXCEPT !.role = role]

RequestHistories ==
    UNION {{[i \in 1..n |-> RequestMessage(i, roles[i])] :
               roles \in [1..n -> Roles \cup {"system"}]}
           : n \in 0..MaxHistory}

InitRequest ==
    /\ Quiescent
    /\ call \in [provider : {"anthropic", "google"}, history : RequestHistories,
                 userMessage : {<<7>>}, systemMessage : {<<>>, <<8>>},
                 returned : {FALSE}, result : {Body(<<>>, <<>>)}]

\* adapter.buildStreamRequest(input) returns.
BuildStreamRequest ==
    /\ ~call.returned
    /\ call' = [call EXCEPT
                  !.returned = TRUE,
                  !.result = IF call.provider = "google"
                             THEN Google_buildStreamRequest(call.history, call.userMessage,
                                                            call.systemMessage)
                             ELSE Anthropic_buildStreamRequest(call.history, call.userMessage,
                                                               call.systemMessage)]
    /\ UNCHANGED others

RequestSpec == InitRequest /\ [][BuildStreamRequest]_vars

\* ------------------------------------------- sends with windowing inputs
\* One send after the other, each with its own text, any context length,
\* a divider on the last message of the log or none, and any
\* caller-supplied copy of the history; every stream succeeds.
TurnText(t) == <<0, t>>
SendLengths == {Infinite, 0, 1, 2}
CallerCopies == {<<>>, <<UserMessage(NoId, <<9>>)>>}

LastMessageDivider(c) ==
    {<<>>} \cup (IF log[c] = <<>> THEN {} ELSE {<<log[c][Len(log[c])].id>>})

HistoryInputs(t) ==
    [conversationId : {"a"}, channel : {"ok"}, modelId : ModelIds,
     userMessage : {TurnText(t)}, contextLength : SendLengths,
     contextDividers : LastMessageDivider("a"), messageHistory : CallerCopies,
     provider : {"anthropic"}]

NextHistory ==
    \/ \E t \in Turns : \E inp \in HistoryInputs(t) :
          /\ \A u \in Turns : pc[u] # "streaming"
          /\ SendMessage(t, inp, TRUE, TRUE)
    \/ \E t \in Turns : OnChunk(t, NextDelta(t))
    \/ \E t \in Turns : StreamResolve(t, TRUE, 0)

HistorySpec == Init /\ [][NextHistory]_vars

\* ------------------------------------------- filterHistory on its own
\* The message appended at position i of a log, with the given role.
MessageAt(i, role) ==
    IF role = "user" THEN UserMessage(i, <<0>>)
    ELSE AssistantMessage(i, <<0>>, <<>>, "m1")

Histories ==
    UNION {{[i \in 1..n |-> MessageAt(i, roles[i])] : roles \in [1..n -> Roles]}
           : n \in 0..MaxHistory}

\* filterHistory is about to be called on any history, divider list and
\* context length; nothing else is going on.
InitWindow ==
    /\ activeControllers = [c \in Convs |-> NoTurn]
    /\ aborted = [t \in Turns |-> FALSE]
    /\ pc = [t \in Turns |-> "idle"]
    /\ input = [t \in Turns |-> NoInput]
    /\ accumulatedContent = [t \in Turns |-> <<>>]
    /\ accumulatedReasoning = [t \in Turns |-> <<>>]
    /\ sseContent = [t \in Turns |-> <<>>]
    /\ sseReasoning = [t \in Turns |-> <<>>]
    /\ stream = [t \in Turns |-> "none"]
    /\ log = [c \in Convs |-> <<>>]
    /\ index = [c \in Convs |-> Absent]
    /\ effects = [t \in Turns |-> <<>>]
    /\ request = [t \in Turns |-> <<>>]
    /\ now = 1
    /\ windowCall \in [messageHistory : Histories, contextDividers : DividerLists,
                        contextLength : {Infinite} \cup FiniteLengths,
                        returned : {FALSE}, filteredHistory : {<<>>}]
    /\ frames = [t \in Turns |-> <<>>]
    /\ call = NoArgs

\* The call returns.
FilterHistory ==
    /\ ~windowCall.returned
    /\ windowCall' = [windowCall EXCEPT
                         !.returned = TRUE,
                         !.filteredHistory = filterHistory(windowCall.messageHistory,
                                                           windowCall.contextDividers,
                                                           windowCall.contextLength)]
    /\ UNCHANGED <<activeControllers, aborted, pc, input, accumulatedContent,
                   accumulatedReasoning, sseContent, sseReasoning, stream, log, index,
                   effects, request, now, frames, call>>

WindowSpec == InitWindow /\ [][FilterHistory]_vars

\* ----------------------------------------------------- getRecentMessages
\* Array.prototype.slice(start): a negative start counts from the end, and
\* -0 is 0.
sliceFrom(lines, start) ==
    LET from == IF start < 0
                THEN (IF Len(lines) + start < 0 THEN 0 ELSE Len(lines) + start)
                ELSE (IF start > Len(lines) THEN Len(lines) ELSE start)
    IN SubSeq(lines, from + 1, Len(lines))

\* getRecentMessages on a readable file whose lines are these messages (no
\* file: no lines).
getRecentMessages(lines, limit) ==
    IF lines = <<>> THEN [messages |-> <<>>, total |-> 0, hasMore |-> FALSE]
    ELSE IF Len(lines) <= limit
         THEN [messages |-> lines, total |-> Len(lines), hasMore |-> FALSE]
         ELSE [messages |-> sliceFrom(lines, 0 - limit), total |-> Len(lines),
               hasMore |-> TRUE]

InitRecent ==
    /\ Quiescent
    /\ call \in [lines : Histories, limit : 0..MaxLimit, returned : {FALSE},
                 result : {[messages |-> <<>>, total |-> 0, hasMore |-> FALSE]}]

\* getRecentMessages(id, limit) returns.
GetRecentMessages ==
    /\ ~call.returned
    /\ call' = [call EXCEPT !.returned = TRUE,
                            !.result = getRecentMessages(call.lines, call.limit)]
    /\ UNCHANGED others

RecentSpec == InitRecent /\ [][GetRecentMessages]_vars

\* ------------------------------------------------------------------ claims
\* Vocabulary of the claims, read off the state.
Done(t) == pc[t] \in {"returned", "threw"}

ConvOf(t) == input[t].conversationId

\* The positions in call t's effect trace of the effects with this op.
Ops(t, op) == {i \in 1..Len(effects[t]) : effects[t][i].op = op}

TerminalEvents(t) == Ops(t, "STREAM_COMPLETE") \cup Ops(t, "STREAM_ERROR")

\* Where in the store the message with this id is written.
WrittenWithId(id) ==
    UNION {{<<c, i>> : i \in {j \in 1..Len(log[c]) : log[c][j].id = id}} : c \in Convs}

UserMsgId(t) == randomUUID(t, 1)
AssistantMsgId(t) == randomUUID(t, 2)

UserMessageInLog(t) ==
    \E i \in 1..Len(log[ConvOf(t)]) :
        /\ log[ConvOf(t)][i].id = UserMsgId(t)
        /\ log[ConvOf(t)][i].role = "user"
        /\ log[ConvOf(t)][i].content \in UserTexts

ConfigErrors == {"channel not found", "decrypt failed"}

ConfigFailed(t) ==
    /\ pc[t] = "returned"
    /\ \E e \in ConfigErrors : effects[t] = <<SendError(ConvOf(t), e)>>

\* The call's one assistant message is in its conversation's log and
\* nowhere else, equal to msg, and the call's only terminal event is the
\* completion carrying its id, sent after the append.
AssistantWritten(t, msg) ==
    /\ \E i \in 1..Len(log[ConvOf(t)]) :
          /\ WrittenWithId(AssistantMsgId(t)) = {<<ConvOf(t), i>>}
          /\ log[ConvOf(t)][i] = msg
    /\ \E i \in Ops(t, "appendMessage") :
          /\ effects[t][i] = StoreAppend(ConvOf(t), AssistantMsgId(t))
          /\ TerminalEvents(t) = {i + 1}
          /\ effects[t][i + 1] = SendComplete(ConvOf(t), AssistantMsgId(t))
          /\ Ops(t, "appendMessage") \subseteq {1, i}

\* C1: no turn emits more than one terminal event: the STREAM_COMPLETE and
\* STREAM_ERROR events a call of sendMessage sends number at most one.
C1_AtMostOneTerminalEvent ==
    \A t \in Turns : Cardinality(TerminalEvents(t)) <= 1

\* C1 witness: a call whose stream resolved, whose append then threw, and
\* which went through the catch block after part of the try block.
C1_Witness ==
    \E t \in Turns :
        /\ Done(t) /\ stream[t] = "resolved"
        /\ Cardinality(Ops(t, "STREAM_ERROR")) = 1

\* C2 (as claimed): every call of sendMessage that has ended has sent a
\* terminal event, whether or not the store operations threw.
C2_EndedWithTerminalEvent ==
    \A t \in Turns : Done(t) => TerminalEvents(t) # {}

\* C3 (as claimed): after any send has ended the log contains its user
\* message, whatever the outcome.
C3_UserMessageAlwaysInLog ==
    \A t \in Turns : Done(t) => UserMessageInLog(t)

\* C3 (amended): a send whose channel and key resolve appends its user
\* message before anything else it does; the network call is issued only
\* after that append, and from then on the log holds the message whatever
\* the outcome.  The log lacks the message only when the call ended on a
\* configuration error or because the append itself threw, and then no
\* network call was issued.
C3_UserMessageBeforeNetwork ==
    \A t \in Turns :
        pc[t] # "idle" =>
            IF UserMessageInLog(t)
            THEN /\ Len(effects[t]) >= 1
                 /\ effects[t][1] = StoreAppend(ConvOf(t), UserMsgId(t))
            ELSE /\ Ops(t, "fetch") = {}
                 /\ stream[t] = "none"
                 /\ ConfigFailed(t) \/ (pc[t] = "threw" /\ effects[t] = <<>>)

\* C3 witness: a transport error (stream rejected, token not triggered)
\* after which the user message is still in the log.
C3_Witness ==
    \E t \in Turns :
        /\ Done(t) /\ stream[t] = "rejected" /\ ~aborted[t]
        /\ UserMessageInLog(t)

\* C4 (as claimed): a cancelled turn with non-empty accumulated content
\* has written exactly one assistant message, stopped = true, content the
\* accumulated chunk text, and sent the completion carrying its id.
C4_CancelWithContentWritesPartial ==
    \A t \in Turns :
        (Done(t) /\ aborted[t] /\ accumulatedContent[t] # <<>>) =>
            AssistantWritten(t, PartialMessage(AssistantMsgId(t), accumulatedContent[t],
                                               accumulatedReasoning[t], input[t].modelId))

\* C5: a cancelled turn with zero accumulated content sends one completion
\* event with no message id and writes no message: its only store write
\* is the user message it appended first.
C5_CancelWithoutContent ==
    \A t \in Turns :
        (Done(t) /\ aborted[t] /\ accumulatedContent[t] = <<>>) =>
            /\ pc[t] = "returned"
            /\ WrittenWithId(AssistantMsgId(t)) = {}
            /\ Ops(t, "appendMessage") = {1}
            /\ TerminalEvents(t) = {Len(effects[t])}
            /\ effects[t][Len(effects[t])] = SendComplete(ConvOf(t), NoId)

\* C5 witness: a turn cancelled with no visible text accumulated.
C5_Witness ==
    \E t \in Turns : Done(t) /\ aborted[t] /\ accumulatedContent[t] = <<>>

\* C6 (as claimed): when the token was triggered and the stream call
\* failed, the turn's terminal event is STREAM_COMPLETE and it sends no
\* STREAM_ERROR.
C6_CancelledTurnCompletes ==
    \A t \in Turns :
        (Done(t) /\ aborted[t] /\ stream[t] = "rejected") =>
            /\ Ops(t, "STREAM_ERROR") = {}
            /\ Cardinality(Ops(t, "STREAM_COMPLETE")) = 1

\* C7 (as claimed): a turn that failed with its token not triggered has
\* sent an error event and written no assistant message.
C7_FailureEmitsError ==
    \A t \in Turns :
        (/\ Done(t) /\ ~aborted[t]
         /\ ~(stream[t] = "resolved" /\ WrittenWithId(AssistantMsgId(t)) # {})) =>
            /\ Cardinality(Ops(t, "STREAM_ERROR")) = 1
            /\ Ops(t, "STREAM_COMPLETE") = {}
            /\ WrittenWithId(AssistantMsgId(t)) = {}
            /\ Ops(t, "appendMessage") \subseteq {1}

\* C8 (as claimed): when the stream call succeeded the turn has appended
\* one assistant message (content, reasoning, model id, not stopped) and
\* then sent the completion carrying its id.
C8_SuccessWritesAssistant ==
    \A t \in Turns :
        stream[t] = "resolved" =>
            AssistantWritten(t, AssistantMessage(AssistantMsgId(t), sseContent[t],
                                                 sseReasoning[t], input[t].modelId))

\* C8 (amended): when the stream call succeeded, either the append of the
\* assistant message succeeded, and the turn has written exactly that one
\* message and then sent the completion carrying its id, or the append
\* threw, and the turn has written no assistant message and its only
\* terminal event is a STREAM_ERROR.
C8_SuccessWritesAssistantOrReportsError ==
    \A t \in Turns :
        stream[t] = "resolved" =>
            \/ AssistantWritten(t, AssistantMessage(AssistantMsgId(t), sseContent[t],
                                                    sseReasoning[t], input[t].modelId))
            \/ /\ WrittenWithId(AssistantMsgId(t)) = {}
               /\ Ops(t, "appendMessage") = {1}
               /\ TerminalEvents(t) = {Len(effects[t])}
               /\ effects[t][Len(effects[t])] = SendError(ConvOf(t), "append failed")

\* C8 witness: a successful turn that relayed reasoning and visible text
\* and whose assistant message is in the log.
C8_Witness ==
    \E t \in Turns :
        /\ stream[t] = "resolved" /\ sseContent[t] # <<>> /\ sseReasoning[t] # <<>>
        /\ WrittenWithId(AssistantMsgId(t)) # {}

\* The step in which call t ends on a configuration error.
ConfigErrorStep(t) ==
    /\ pc[t] = "idle"
    /\ \E i \in 1..Len(effects'[t]) : effects'[t][i].error \in ConfigErrors

\* C9: a configuration error creates no partial state: the step in which
\* sendMessage ends on a missing channel or an undecryptable key sends one
\* error event and leaves every store log, the conversation index and the
\* cancellation registry as they were.
C9_ConfigErrorNoPartialState ==
    [][\A t \in Turns :
          ConfigErrorStep(t) =>
              /\ \E e \in ConfigErrors : effects'[t] = <<SendError(input'[t].conversationId, e)>>
              /\ pc'[t] = "returned"
              /\ log' = log
              /\ index' = index
              /\ activeControllers' = activeControllers
              /\ aborted' = aborted]_vars

\* C9 witness: a send ended on a configuration error while an earlier turn
\* of the same conversation is streaming and still registered.
C9_Witness ==
    \E t, u \in Turns :
        /\ ConfigFailed(t)
        /\ pc[u] = "streaming" /\ ConvOf(u) = ConvOf(t)
        /\ activeControllers[ConvOf(t)] = u

\* C10: the registry holds an entry for a conversation id only while a
\* turn of that id is between registration and termination (the turn that
\* registered it); once every turn of the id has ended there is no entry.
C10_RegistryOnlyWhileInFlight ==
    \A c \in Convs :
        activeControllers[c] # NoTurn =>
            /\ pc[activeControllers[c]] = "streaming"
            /\ ConvOf(activeControllers[c]) = c

\* C10 witness: every turn has ended, two of them registered a token for
\* the same conversation id, and the registry is empty.
C10_Witness ==
    /\ \A t \in Turns : Done(t)
    /\ \E t, u \in Turns :
          /\ t # u /\ ConvOf(t) = ConvOf(u)
          /\ stream[t] # "none" /\ stream[u] # "none"
    /\ \A c \in Convs : activeControllers[c] = NoTurn

\* ------------------------------------------------- claims on the registry
\* Call t is the most recently started call of its conversation id.
MostRecentlyStarted(t) ==
    /\ pc[t] # "idle"
    /\ \A u \in Turns : (u > t /\ pc[u] # "idle") => ConvOf(u) # ConvOf(t)

\* C11 (as claimed): the most recently started turn of a conversation id,
\* while it is streaming and no stop(id) has reached it, is the turn the
\* registry maps the id to, so that stop(id) aborts it.
C11_LatestTurnStoppable ==
    \A t \in Turns :
        (pc[t] = "streaming" /\ ~aborted[t] /\ MostRecentlyStarted(t)) =>
            /\ activeControllers[ConvOf(t)] = t
            /\ stopGeneration(activeControllers, aborted, ConvOf(t)).aborted[t]

\* Call u went as far as registering its controller (step 5).
Registered(u) ==
    \/ stream[u] # "none"
    \/ \E i \in 1..Len(effects[u]) : effects[u][i].error = "request failed"

\* The terminal events in an effect trace.
TerminalIn(e) == {i \in 1..Len(e) : e[i].op \in {"STREAM_COMPLETE", "STREAM_ERROR"}}

\* Call t is streaming with its token untriggered, and a later call of the
\* same conversation id has registered its own token over t's.
Replaced(t) ==
    /\ pc[t] = "streaming" /\ ~aborted[t]
    /\ \E u \in Turns : u > t /\ pc[u] # "idle" /\ ConvOf(u) = ConvOf(t) /\ Registered(u)

\* Call u is the second call: the most recent of its id, streaming with its
\* token untriggered, while every earlier call of the id that opened a
\* stream is still streaming.
SecondWhileFirstStreams(u) ==
    /\ pc[u] = "streaming" /\ ~aborted[u] /\ MostRecentlyStarted(u)
    /\ \E t \in Turns : t < u /\ ConvOf(t) = ConvOf(u) /\ Replaced(t)
    /\ \A v \in Turns :
          (v < u /\ ConvOf(v) = ConvOf(u) /\ stream[v] # "none") => pc[v] = "streaming"

\* C12: when a second send of the same id registers while the first turn
\* is streaming, the first turn's token is replaced without being
\* triggered: no later step triggers it, so stop cannot reach it; a stop(id)
\* issued while both stream aborts the second turn and only it; and the
\* first turn ends with exactly one terminal event of its own.
C12_ReplacedTurnUnreachable ==
    [][/\ \A t \in Turns :
             Replaced(t) =>
                 /\ ~aborted'[t]
                 /\ ~stopGeneration(activeControllers, aborted, ConvOf(t)).aborted[t]
                 /\ pc'[t] # "streaming" =>
                        /\ pc'[t] = "returned"
                        /\ Cardinality(TerminalIn(effects'[t])) = 1
       /\ \A u \in Turns :
             SecondWhileFirstStreams(u) =>
                 stopGeneration(activeControllers, aborted, ConvOf(u)).aborted
                     = [aborted EXCEPT ![u] = TRUE]]_vars

\* C12 witness: the first turn has ended with its terminal event, never
\* triggered, after a stop(id) aborted the second turn, which is still
\* streaming.
C12_Witness ==
    \E t, u \in Turns :
        /\ t < u /\ ConvOf(t) = ConvOf(u)
        /\ stream[t] \in {"resolved", "rejected"} /\ ~aborted[t]
        /\ Cardinality(TerminalEvents(t)) = 1
        /\ pc[u] = "streaming" /\ aborted[u]

\* C13: stop(id) with a registered token triggers that token and removes
\* the registry entry in the same step, so that a stop(id) immediately
\* after it finds nothing and changes nothing.
C13_StopTriggersAndDeregisters ==
    [][\A t \in Turns :
          (aborted'[t] /\ ~aborted[t]) =>
              /\ activeControllers[ConvOf(t)] = t
              /\ activeControllers' = [activeControllers EXCEPT ![ConvOf(t)] = NoTurn]
              /\ aborted' = [aborted EXCEPT ![t] = TRUE]
              /\ stopGeneration(activeControllers', aborted', ConvOf(t))
                     = [activeControllers |-> activeControllers', aborted |-> aborted']]_vars

\* C13 witness: a turn whose token stop has triggered, still streaming,
\* with no registry entry left for its id.
C13_Witness ==
    \E t \in Turns :
        /\ pc[t] = "streaming" /\ aborted[t]
        /\ activeControllers[ConvOf(t)] = NoTurn

\* C14: stop(id) on a conversation with no registered turn is a silent
\* no-op: it changes neither the registry nor any abort flag, store log,
\* index record or effect trace; also when the turn has already ended.
C14_StopWithoutEntryIsNoOp ==
    [][\A c \in Convs :
          activeControllers[c] = NoTurn =>
              /\ stopGeneration(activeControllers, aborted, c)
                     = [activeControllers |-> activeControllers, aborted |-> aborted]
              /\ StopGeneration(c) => UNCHANGED vars]_vars

\* C14 witness: a turn of the conversation has ended with its terminal
\* event, another one is still streaming unregistered, and the id has no
\* registry entry: the state in which a late stop arrives.
C14_Witness ==
    \E t, u \in Turns :
        /\ ConvOf(t) = ConvOf(u)
        /\ Done(t) /\ TerminalEvents(t) # {}
        /\ pc[u] = "streaming"
        /\ activeControllers[ConvOf(t)] = NoTurn

\* ------------------------------------------- claims on isolation and order
\* What call t owns: its position, token, accumulators, request and trace.
OwnState(t) ==
    <<pc[t], aborted[t], stream[t], input[t], accumulatedContent[t],
      accumulatedReasoning[t], sseContent[t], sseReasoning[t], request[t], effects[t]>>

\* Every effect of a call is tagged with the call's conversation id, and
\* every message in a conversation's log was written by a call of that id.
TaggedWithOwnId ==
    /\ \A t \in Turns : \A i \in 1..Len(effects[t]) :
          effects[t][i].conversationId = ConvOf(t)
    /\ \A d \in Convs : \A i \in 1..Len(log[d]) :
          \E t \in Turns :
              /\ pc[t] # "idle" /\ ConvOf(t) = d
              /\ log[d][i].id \in {UserMsgId(t), AssistantMsgId(t)}

\* C15: turns of different conversation ids are isolated: every step (a
\* send, a stream event, a completion, a stop) belongs to one conversation
\* id c and leaves the log, the index record and the registry entry of
\* every other id, and the token, position, accumulators and events of
\* every turn of another id, as they were; events and messages carry the
\* id of the turn that produced them.
C15_ConversationsIsolated ==
    [][/\ \E c \in Convs :
             /\ \A d \in Convs \ {c} :
                   /\ log'[d] = log[d]
                   /\ index'[d] = index[d]
                   /\ activeControllers'[d] = activeControllers[d]
             /\ \A t \in Turns :
                   (pc[t] # "idle" /\ ConvOf(t) # c) => OwnState(t)' = OwnState(t)
       /\ TaggedWithOwnId']_vars

\* C15 witness: a turn of one conversation was stopped and has ended while
\* a turn of another conversation is streaming, untriggered and registered.
C15_Witness ==
    \E t, u \in Turns :
        /\ ConvOf(t) # ConvOf(u)
        /\ Done(t) /\ aborted[t]
        /\ pc[u] = "streaming" /\ ~aborted[u] /\ activeControllers[ConvOf(u)] = u

\* The positions in call t's trace of the write of its assistant message.
AssistantWrites(t) ==
    {i \in Ops(t, "appendMessage") : effects[t][i].messageId = AssistantMsgId(t)}

RelayedEvents(t) == Ops(t, "STREAM_CHUNK") \cup Ops(t, "STREAM_REASONING")

\* C16: within one turn every relayed chunk and reasoning event precedes
\* the store write of the turn's assistant message, the write precedes the
\* terminal event, and no chunk or reasoning event follows the terminal
\* event.
C16_EventsThenWriteThenTerminal ==
    \A t \in Turns :
        /\ WrittenWithId(AssistantMsgId(t)) # {} => AssistantWrites(t) # {}
        /\ \A i \in RelayedEvents(t), j \in AssistantWrites(t) : i < j
        /\ \A j \in AssistantWrites(t), k \in TerminalEvents(t) : j < k
        /\ \A i \in RelayedEvents(t), k \in TerminalEvents(t) : i < k

\* C16 witness: a cancelled turn that relayed a reasoning and a chunk
\* event, wrote its partial message and sent its terminal event.
C16_Witness ==
    \E t \in Turns :
        /\ Done(t) /\ aborted[t]
        /\ Ops(t, "STREAM_CHUNK") # {} /\ Ops(t, "STREAM_REASONING") # {}
        /\ AssistantWrites(t) # {} /\ TerminalEvents(t) # {}

\* ------------------------------------------------ claims on filterHistory
\* The positions of the user-role messages of a history.
UserPositions(h) == {i \in 1..Len(h) : h[i].role = "user"}

\* Where in the call's history the i-th message of its result lies.
PositionInHistory(i) ==
    FindIndex(windowCall.messageHistory, windowCall.filteredHistory[i].id)

\* The position in the history of the last element of the divider list
\* that occurs in the history; 0 when none occurs.
LastOccurringDivider(h, dividers) ==
    LET occurring == {k \in 1..Len(dividers) : FindIndex(h, dividers[k]) >= 1}
    IN IF occurring = {} THEN 0
       ELSE FindIndex(h, dividers[CHOOSE k \in occurring : \A j \in occurring : j <= k])

\* The position in the history of the final element of the divider list;
\* 0 when the list is empty or its final element does not occur.
FinalDivider(h, dividers) ==
    IF dividers = <<>> THEN 0 ELSE FindIndex(h, dividers[Len(dividers)])

\* C17: for every history, divider list and integer N >= 0, the result of
\* filterHistory contains at most N messages of role user.
C17_AtMostNUserMessages ==
    (windowCall.returned /\ windowCall.contextLength >= 0) =>
        Cardinality(UserPositions(windowCall.filteredHistory)) <= windowCall.contextLength

\* C17 witness: a call with N = 2 on a history with at least three user
\* messages after its divider, returning exactly two user messages.
C17_Witness ==
    /\ windowCall.returned /\ windowCall.contextLength = 2
    /\ FinalDivider(windowCall.messageHistory, windowCall.contextDividers) >= 1
    /\ Cardinality(UserPositions(DividerTrim(windowCall.messageHistory,
                                              windowCall.contextDividers))) >= 3
    /\ Cardinality(UserPositions(windowCall.filteredHistory)) = 2

\* C18 (as claimed): every message of the result lies in the history
\* strictly after the last id of the divider list that occurs in the
\* history, also when the list's final element does not occur but an
\* earlier one does.
C18_AfterLastOccurringDivider ==
    windowCall.returned =>
        \A i \in 1..Len(windowCall.filteredHistory) :
            PositionInHistory(i) >
                LastOccurringDivider(windowCall.messageHistory, windowCall.contextDividers)

\* The suffix of a history that starts at its n-th most recent user
\* message; the whole history when it has fewer than n user messages.
RoundSuffix(h, n) ==
    IF Cardinality(UserPositions(h)) < n THEN h
    ELSE LET start == CHOOSE p \in UserPositions(h) :
                          Cardinality({i \in UserPositions(h) : i >= p}) = n
         IN SubSeq(h, start, Len(h))

\* C19: for a finite N >= 1 the result is the contiguous suffix, in
\* original order, of the divider-trimmed history that starts at its N-th
\* most recent user message, or the whole divider-trimmed history when
\* that has fewer than N user messages.
C19_SuffixFromNthRecentUser ==
    (windowCall.returned /\ windowCall.contextLength >= 1) =>
        windowCall.filteredHistory
            = RoundSuffix(DividerTrim(windowCall.messageHistory, windowCall.contextDividers),
                          windowCall.contextLength)

\* C19 witness: N = 2, and the result is a proper suffix of the
\* divider-trimmed history holding an assistant message between its two
\* user messages.
C19_Witness ==
    /\ windowCall.returned /\ windowCall.contextLength = 2
    /\ windowCall.filteredHistory
          # DividerTrim(windowCall.messageHistory, windowCall.contextDividers)
    /\ Len(windowCall.filteredHistory) = 3
    /\ windowCall.filteredHistory[2].role = "assistant"
    /\ windowCall.filteredHistory[3].role = "user"

\* C20: divider trimming is applied before round trimming: the result
\* equals round trimming applied to the divider-trimmed history, and when
\* the divider is in the history no message of the result lies at or
\* before it, also when fewer than N rounds follow the divider.
C20_DividerBeforeRounds ==
    windowCall.returned =>
        /\ windowCall.filteredHistory
              = filterHistory(DividerTrim(windowCall.messageHistory,
                                          windowCall.contextDividers),
                              <<>>, windowCall.contextLength)
        /\ \A i \in 1..Len(windowCall.filteredHistory) :
              PositionInHistory(i) >
                  FinalDivider(windowCall.messageHistory, windowCall.contextDividers)

\* C20 witness: the divider is in the history with user messages before
\* it, fewer than N rounds follow it, and the result is exactly what
\* follows the divider.
C20_Witness ==
    LET h == windowCall.messageHistory
        p == FinalDivider(h, windowCall.contextDividers)
    IN /\ windowCall.returned /\ windowCall.contextLength >= 2
       /\ p >= 2
       /\ UserPositions(SubSeq(h, 1, p)) # {}
       /\ Cardinality(UserPositions(SubSeq(h, p + 1, Len(h)))) = 1
       /\ windowCall.filteredHistory = SubSeq(h, p + 1, Len(h))
       /\ Len(windowCall.filteredHistory) >= 2

\* ------------------------------------- claims on the history of a request
\* Call t handed a history to buildStreamRequest.
RequestBuilt(t) == stream[t] # "none"

\* Where call t's user message lies in its conversation's log.
SendPosition(t) == FindIndex(log[ConvOf(t)], UserMsgId(t))

\* The log as it was before call t appended its user message.
PrecedingLog(t) == SubSeq(log[ConvOf(t)], 1, SendPosition(t) - 1)

\* C21 (as claimed): a send with contextLength = N >= 1 hands the backend
\* the N most recent complete rounds that precede the new message.
C21_WindowIsPrecedingRounds ==
    \A t \in Turns :
        (RequestBuilt(t) /\ input[t].contextLength >= 1) =>
            request[t] = RoundSuffix(DividerTrim(PrecedingLog(t), input[t].contextDividers),
                                     input[t].contextLength)

\* The messages of the built request that carry the call's user text.
CurrentTextIn(msgs, t) ==
    {i \in 1..Len(msgs) : msgs[i].role = "user" /\ msgs[i].content = input[t].userMessage}

\* C22 (as claimed): the history handed to buildStreamRequest never holds
\* the current turn's user message, and the built request carries the
\* current user text exactly once, as its final message.
C22_HistoryExcludesCurrentMessage ==
    \A t \in Turns :
        RequestBuilt(t) =>
            /\ \A i \in 1..Len(request[t]) : request[t][i].id # UserMsgId(t)
            /\ LET msgs == toAnthropicMessages(request[t], input[t].userMessage)
               IN CurrentTextIn(msgs, t) = {Len(msgs)}
            /\ LET msgs == toGoogleContents(request[t], input[t].userMessage)
               IN CurrentTextIn(msgs, t) = {Len(msgs)}

\* C23: filterHistory(H, D, 0) is the empty list for every history H and
\* every divider list D.
C23_ZeroLengthIsEmpty ==
    (windowCall.returned /\ windowCall.contextLength = 0) =>
        windowCall.filteredHistory = <<>>

\* C23 witness: a call with N = 0 on a history that has user messages after
\* its divider.
C23_Witness ==
    /\ windowCall.returned /\ windowCall.contextLength = 0
    /\ FinalDivider(windowCall.messageHistory, windowCall.contextDividers) >= 1
    /\ UserPositions(DividerTrim(windowCall.messageHistory,
                                  windowCall.contextDividers)) # {}

\* C24: with no dividers and the unlimited (or unset) context length,
\* filterHistory returns the full history: same messages, same order.
C24_NoDividerUnlimitedIsIdentity ==
    (/\ windowCall.returned
     /\ windowCall.contextDividers = <<>>
     /\ windowCall.contextLength = Infinite) =>
        windowCall.filteredHistory = windowCall.messageHistory

\* C24 witness: such a call on a history of several rounds.
C24_Witness ==
    /\ windowCall.returned
    /\ windowCall.contextDividers = <<>> /\ windowCall.contextLength = Infinite
    /\ Cardinality(UserPositions(windowCall.messageHistory)) >= 2
    /\ Len(windowCall.filteredHistory) >= 3

\* C25: the history handed to the adapter is determined by the store
\* alone: it is the windowing, under the send's context length and
\* dividers, of the log as the store holds it when the send reads it,
\* whatever messageHistory the caller supplied.
C25_HistoryFromStoreAlone ==
    \A t \in Turns :
        RequestBuilt(t) =>
            request[t] = filterHistory(SubSeq(log[ConvOf(t)], 1, SendPosition(t)),
                                       input[t].contextDividers, input[t].contextLength)

\* C25 witness: two sends against stores holding the same kind of log, one
\* given an empty and one a non-empty messageHistory, whose requests hold
\* stored messages and nothing of the caller's copy.
C25_Witness ==
    \E t, u \in Turns :
        /\ RequestBuilt(t) /\ RequestBuilt(u)
        /\ input[t].messageHistory = <<>> /\ input[u].messageHistory # <<>>
        /\ input[t].contextLength = input[u].contextLength
        /\ Len(request[u]) >= 2
        /\ \A i \in 1..Len(request[u]) : request[u][i].id # NoId

\* -------------------------------------------------- claims on the metadata
\* C26 (as claimed): updatedAt strictly increases on every mutation of a
\* conversation's metadata record or message log.
C26_UpdatedAtStrictlyIncreases ==
    [][\A c \in Convs :
          (index[c].present /\ (log'[c] # log[c] \/ index'[c] # index[c])) =>
              index'[c].updatedAt > index[c].updatedAt]_vars

\* C28: a failure of the metadata update after the assistant message (full
\* or partial) was written does not mask the turn: the message stays in
\* the log and the turn's only terminal event is STREAM_COMPLETE with the
\* message id.
C28_MetaFailureDoesNotMask ==
    \A t \in Turns :
        (AssistantWrites(t) # {} /\ updateConversationMetaThrows(index, ConvOf(t))) =>
            /\ \E i \in 1..Len(log[ConvOf(t)]) : log[ConvOf(t)][i].id = AssistantMsgId(t)
            /\ Ops(t, "STREAM_ERROR") = {}
            /\ TerminalEvents(t) = {Len(effects[t])}
            /\ effects[t][Len(effects[t])] = SendComplete(ConvOf(t), AssistantMsgId(t))

\* C28 witness: a successful turn and a cancelled turn with content, both
\* of a conversation that is not in the index.
C28_Witness ==
    \E t, u \in Turns :
        /\ updateConversationMetaThrows(index, ConvOf(t))
        /\ updateConversationMetaThrows(index, ConvOf(u))
        /\ stream[t] = "resolved" /\ AssistantWrites(t) # {}
        /\ aborted[u] /\ AssistantWrites(u) # {}

\* ------------------------------------------------ claims on stored messages
\* The messages of kept are messages of messages, unchanged and in the
\* same relative order.
Survivors(kept, messages) ==
    /\ \A i \in 1..Len(kept) :
          /\ FindIndex(messages, kept[i].id) >= 1
          /\ messages[FindIndex(messages, kept[i].id)] = kept[i]
    /\ \A i, j \in 1..Len(kept) :
          i < j => FindIndex(messages, kept[i].id) < FindIndex(messages, kept[j].id)

\* C27: across sends, stops, completions, deletions and truncations a
\* stored message keeps its id, role and content, the surviving messages
\* keep their relative order, and a message leaves the log only in a
\* deleteMessage or truncateMessagesFrom step: every other step leaves the
\* log as it was or appends one message with a fresh id.
C27_MessagesImmutableAndOrdered ==
    [][\A c \in Convs :
          \/ log'[c] = log[c]
          \/ /\ Len(log'[c]) = Len(log[c]) + 1
             /\ SubSeq(log'[c], 1, Len(log[c])) = log[c]
             /\ FindIndex(log[c], log'[c][Len(log'[c])].id) = 0
          \/ /\ Len(log'[c]) < Len(log[c])
             /\ Survivors(log'[c], log[c])
             /\ \/ \E id \in MessageIds : DeleteMessage(c, id, TRUE)
                \/ \E id \in MessageIds : TruncateMessagesFrom(c, id, TRUE)]_vars

\* C27 witness: the first turn's user message was deleted; its assistant
\* message and a later turn's user message survive, in that order.
C27_Witness ==
    \E t, u \in Turns :
        /\ t < u /\ ConvOf(t) = ConvOf(u)
        /\ Ops(t, "appendMessage") # {}
        /\ FindIndex(log[ConvOf(t)], UserMsgId(t)) = 0
        /\ FindIndex(log[ConvOf(t)], AssistantMsgId(t)) = 1
        /\ FindIndex(log[ConvOf(t)], UserMsgId(u)) = 2

\* --------------------------------------------------- claims on stream frames
\* A frame by which the backend signals an error.
BackendError(jsonLine) == jsonLine.json = "object" /\ jsonLine.error

\* C29: a turn whose stream delivered a backend error frame ends with an
\* error event and writes no assistant message.
C29_ErrorFrameFailsTurn ==
    \A t \in Turns :
        (Done(t) /\ \E i \in 1..Len(frames[t]) : BackendError(frames[t][i])) =>
            /\ Ops(t, "STREAM_ERROR") # {}
            /\ AssistantWrites(t) = {}

\* A line that is not a well-formed content frame of the provider: invalid
\* JSON, JSON null, a frame of another kind, or one with missing fields.
Malformed(provider, jsonLine) ==
    \/ jsonLine.json # "object"
    \/ /\ provider = "google"
       /\ \/ ~jsonLine.hasParts
          \/ \E i \in 1..Len(jsonLine.parts) : jsonLine.parts[i].isNull
          \/ \A i \in 1..Len(jsonLine.parts) : jsonLine.parts[i].text = <<>>
    \/ /\ provider # "google"
       /\ \/ jsonLine.type # "content_block_delta"
          \/ ~jsonLine.hasDelta
          \/ jsonLine.text = <<>> /\ jsonLine.thinking = <<>>

\* The deltas of the turn's relayed events with this op.
RelayedDeltas(t, op) == {effects[t][j].delta : j \in Ops(t, op)}

\* The content of a well-formed frame was relayed.
FrameRelayed(t, jsonLine) ==
    IF input[t].provider = "google"
    THEN \A i \in 1..Len(jsonLine.parts) :
            jsonLine.parts[i].text # <<>> =>
                jsonLine.parts[i].text
                    \in RelayedDeltas(t, IF jsonLine.parts[i].thought
                                         THEN "STREAM_REASONING" ELSE "STREAM_CHUNK")
    ELSE /\ jsonLine.text # <<>> => jsonLine.text \in RelayedDeltas(t, "STREAM_CHUNK")
         /\ jsonLine.thinking # <<>> =>
                jsonLine.thinking \in RelayedDeltas(t, "STREAM_REASONING")

\* C30: for every line a stream delivers, parseSSELine of either adapter
\* does not throw, and returns no events when the line is malformed for the
\* adapter; no line makes the stream fail, and every well-formed frame,
\* also one that follows a malformed line, is relayed.
C30_MalformedFramesAbsorbed ==
    \A t \in Turns : \A i \in 1..Len(frames[t]) :
        /\ ~Anthropic_parseSSELine(frames[t][i]).threw
        /\ ~Google_parseSSELine(frames[t][i]).threw
        /\ Malformed("anthropic", frames[t][i]) =>
               Anthropic_parseSSELine(frames[t][i]).events = <<>>
        /\ Malformed("google", frames[t][i]) =>
               Google_parseSSELine(frames[t][i]).events = <<>>
        /\ ~StreamFailed(t)
        /\ ~Malformed(input[t].provider, frames[t][i]) => FrameRelayed(t, frames[t][i])

\* C30 witness: a turn read JSON null and then a text frame, relayed the
\* text and ended with its assistant message written.
C30_Witness ==
    \E t \in Turns :
        /\ Done(t) /\ Len(frames[t]) = 2
        /\ frames[t][1] = JsonNull
        /\ ~Malformed(input[t].provider, frames[t][2])
        /\ Ops(t, "STREAM_CHUNK") # {}
        /\ Ops(t, "STREAM_COMPLETE") # {} /\ AssistantWrites(t) # {}

\* ------------------------------------------------ claims on parseSSELine
\* A frame that is not a content frame of the provider.
NonDelta(provider, jsonLine) ==
    /\ jsonLine.json = "object"
    /\ IF provider = "google" THEN ~jsonLine.hasParts
       ELSE jsonLine.type # "content_block_delta"

\* A content frame that carries a reasoning fragment and a visible-text
\* fragment.
CarriesBoth(provider, jsonLine) ==
    /\ jsonLine.json = "object"
    /\ IF provider = "google"
       THEN /\ Len(jsonLine.parts) = 2
            /\ \A i \in 1..2 : ~jsonLine.parts[i].isNull /\ jsonLine.parts[i].text # <<>>
            /\ jsonLine.parts[1].thought /\ ~jsonLine.parts[2].thought
       ELSE /\ jsonLine.type = "content_block_delta" /\ jsonLine.hasDelta
            /\ jsonLine.thinking # <<>> /\ jsonLine.text # <<>>

\* C31: parseSSELine of each adapter returns no events for a non-delta
\* frame, and for a frame that carries a reasoning fragment and a text
\* fragment it returns the reasoning event and then the chunk event.
C31_ZeroAndTwoEvents ==
    call.returned =>
        /\ NonDelta(call.provider, call.jsonLine) => call.result.events = <<>>
        /\ CarriesBoth(call.provider, call.jsonLine) =>
              call.result.events
                  = IF call.provider = "google"
                    THEN <<ReasoningEvent(call.jsonLine.parts[1].text),
                           ChunkEvent(call.jsonLine.parts[2].text)>>
                    ELSE <<ReasoningEvent(call.jsonLine.thinking),
                           ChunkEvent(call.jsonLine.text)>>

\* -------------------------------------------- claims on buildStreamRequest
\* The role a history message gets in the provider's vocabulary.
ProviderRole(provider, role) ==
    IF role = "assistant"
    THEN (IF provider = "google" THEN "model" ELSE "assistant")
    ELSE "user"

\* The positions of the non-system messages of a history, in order.
RECURSIVE NonSystemPositions(_, _)
NonSystemPositions(history, i) ==
    IF i > Len(history) THEN <<>>
    ELSE IF history[i].role = "system" THEN NonSystemPositions(history, i + 1)
    ELSE <<i>> \o NonSystemPositions(history, i + 1)

\* C32: the request's message list is the non-system history messages in
\* their order, assistant relabelled for the provider and every other role
\* user, followed by one user message with the current text; the system
\* prompt is a top-level field, present only when it is non-empty.
C32_RequestMessageList ==
    call.returned =>
        LET kept == NonSystemPositions(call.history, 1)
            messages == call.result.messages
        IN /\ Len(messages) = Len(kept) + 1
           /\ \A k \in 1..Len(kept) :
                 /\ messages[k].content = call.history[kept[k]].content
                 /\ messages[k].role
                       = ProviderRole(call.provider, call.history[kept[k]].role)
           /\ messages[Len(messages)] = [role |-> "user", content |-> call.userMessage]
           /\ \A k \in 1..Len(messages) : messages[k].content # call.systemMessage
           /\ call.result.hasSystem = (call.systemMessage # <<>>)
           /\ call.result.hasSystem => call.result.system = call.systemMessage

\* C32 witness: a request built from a history with a system message
\* between a user and an assistant message, with a system prompt.
C32_Witness ==
    /\ call.returned /\ call.systemMessage # <<>>
    /\ Len(call.history) = 3
    /\ call.history[1].role = "user" /\ call.history[2].role = "system"
    /\ call.history[3].role = "assistant"
    /\ Len(call.result.messages) = 3

\* ------------------------------------------------- claims on generateTitle
\* The title request succeeded and returned the text call.title.
TitleFetched == call.returned /\ call.channel = "ok" /\ call.fetched = "ok"

\* A text with no quote or space at either end.
Bare(str) ==
    /\ str # <<>>
    /\ Head(str) \notin QuoteChars \cup {" "}
    /\ str[Len(str)] \notin QuoteChars \cup {" "}

\* C33: generateTitle strips the quotes that surround the response and
\* truncates to 20 characters: "My Trip Plan" in double quotes gives
\* My Trip Plan, a text of at most 20 characters in any surrounding quotes
\* gives that text, and no title is longer than 20 characters.
C33_QuotesStrippedAndTruncated ==
    TitleFetched =>
        /\ call.title = <<"\"">> \o MyTripPlan \o <<"\"">> =>
              call.result = Title(MyTripPlan)
        /\ \A q1, q2 \in SeqsUpTo(QuoteChars, MaxQuotes), body \in TitleBodies :
              (/\ call.title = q1 \o body \o q2
               /\ Bare(body) /\ Len(body) <= MAX_TITLE_LENGTH) =>
                  call.result = Title(body)
        /\ Len(call.result.title) <= MAX_TITLE_LENGTH

\* C33 witness: the response "My Trip Plan" in double quotes gave the
\* title My Trip Plan.
C33_Witness ==
    /\ TitleFetched
    /\ call.title = <<"\"">> \o MyTripPlan \o <<"\"">>
    /\ call.result.title = MyTripPlan

\* C34: generateTitle does not raise; it returns null for a missing
\* channel, a failing decryption, a failing or empty title request and a
\* response that is empty after cleaning; its result is null or a non-empty
\* text; it leaves the registry, the logs and the event traces as they were.
C34_NullOnEveryFailure ==
    call.returned =>
        /\ ~call.result.threw
        /\ (\/ call.channel # "ok" \/ call.fetched # "ok"
            \/ \A i \in 1..Len(call.title) : call.title[i] \in QuoteChars \cup {" "})
              => call.result = Null
        /\ call.result.null \/ call.result.title # <<>>
        /\ activeControllers = [c \in Convs |-> NoTurn]
        /\ log = [c \in Convs |-> <<>>]
        /\ effects = [t \in Turns |-> <<>>]

\* C34 witness: the title request succeeded with a response of quotes and
\* spaces only, and null was returned.
C34_Witness ==
    /\ TitleFetched /\ call.title # <<>>
    /\ \A i \in 1..Len(call.title) : call.title[i] \in QuoteChars \cup {" "}
    /\ call.result = Null

\* ------------------------------------------- claims on the persisted turn
\* The deltas of the events with this op in an effect trace, concatenated
\* in order, from position i on.
RECURSIVE RelayedText(_, _, _)
RelayedText(trace, op, i) ==
    IF i > Len(trace) THEN <<>>
    ELSE IF trace[i].op = op THEN trace[i].delta \o RelayedText(trace, op, i + 1)
    ELSE RelayedText(trace, op, i + 1)

\* The messages in the store with the assistant id of turn t.
AssistantMessagesOf(t) ==
    {log[c][i] : <<c, i>> \in {p \in Convs \X (1..(2 * MaxTurns)) :
                                  /\ p[2] <= Len(log[p[1]])
                                  /\ log[p[1]][p[2]].id = AssistantMsgId(t)
                                  /\ log[p[1]][p[2]].role = "assistant"}}

\* C35: the assistant message a turn persisted, full or partial, has as
\* content the chunk deltas relayed for the turn, concatenated in order,
\* and as reasoning the relayed reasoning deltas, concatenated in order
\* (none when there were none).
C35_PersistedEqualsRelayed ==
    \A t \in Turns : \A msg \in AssistantMessagesOf(t) :
        /\ msg.content = RelayedText(effects[t], "STREAM_CHUNK", 1)
        /\ msg.reasoning = RelayedText(effects[t], "STREAM_REASONING", 1)

\* C35 witness: a cancelled turn persisted a partial message with the
\* reasoning delta and the chunk delta that had been relayed.
C35_Witness ==
    \E t \in Turns : \E msg \in AssistantMessagesOf(t) :
        /\ Done(t) /\ aborted[t] /\ msg.stopped
        /\ msg.content # <<>> /\ msg.reasoning # <<>>

\* C36: however stop interleaves with the completion or the failure of
\* the stream, a turn writes at most one assistant message: never a full
\* and a partial one.
C36_AtMostOneAssistantMessage ==
    \A t \in Turns :
        /\ Cardinality(AssistantWrites(t)) <= 1
        /\ Cardinality(WrittenWithId(AssistantMsgId(t))) <= 1
        /\ Cardinality(AssistantMessagesOf(t)) <= 1

\* C36 witness: a stopped turn ended with its one, partial, message, and
\* another turn of the conversation ended with its one full message.
C36_Witness ==
    \E t, u \in Turns :
        /\ t # u /\ ConvOf(t) = ConvOf(u) /\ Done(t) /\ Done(u)
        /\ aborted[t] /\ \E msg \in AssistantMessagesOf(t) : msg.stopped
        /\ \E msg \in AssistantMessagesOf(u) : ~msg.stopped

\* C37: a turn cancelled after reasoning deltas were relayed and before
\* any chunk delta writes no assistant message, and its completion event
\* carries no message id.
C37_ReasoningOnlyCancelDiscards ==
    \A t \in Turns :
        (/\ Done(t) /\ aborted[t] /\ stream[t] = "rejected"
         /\ Ops(t, "STREAM_CHUNK") = {}) =>
            /\ AssistantWrites(t) = {}
            /\ AssistantMessagesOf(t) = {}
            /\ \A i \in Ops(t, "STREAM_COMPLETE") : effects[t][i].messageId = NoId
            /\ Ops(t, "STREAM_COMPLETE") # {}

\* C37 witness: a turn relayed a reasoning delta, was stopped, and ended.
C37_Witness ==
    \E t \in Turns :
        /\ Done(t) /\ aborted[t]
        /\ Ops(t, "STREAM_REASONING") # {} /\ Ops(t, "STREAM_CHUNK") = {}
        /\ accumulatedReasoning[t] # <<>>
        /\ Ops(t, "STREAM_COMPLETE") # {}

\* ------------------------------------------- claims on serialized sends
\* The position of the message with this id in a conversation's log, or 0.
LogPosition(c, id) == FindIndex(log[c], id)

\* C38: when sends are issued as the UI allows, turns do not interleave in
\* the log: a turn's assistant message, full or partial, precedes the user
\* message of the next turn and is part of the history the next turn's
\* request was built from.
C38_TurnsDoNotInterleave ==
    \A t, u \in Turns :
        (/\ t < u /\ pc[t] # "idle" /\ pc[u] # "idle" /\ ConvOf(t) = ConvOf(u)
         /\ LogPosition(ConvOf(t), AssistantMsgId(t)) >= 1) =>
            /\ LogPosition(ConvOf(t), AssistantMsgId(t))
                  < LogPosition(ConvOf(u), UserMsgId(u))
            /\ FindIndex(request[u], AssistantMsgId(t)) >= 1

\* --------------------------------------------- claims on deleteConversation
\* C39: once deleteConversation has succeeded for a conversation (no
\* conversation is ever created again, so: once its index entry is gone),
\* the conversation has no message log, at every later step.
C39_DeletedStaysDeleted ==
    \A c \in Convs :
        (~index[c].present /\ c = "a") => log[c] = <<>>

\* --------------------------------------------- claims on getRecentMessages
\* C40: getRecentMessages returns the last min(limit, total) messages of
\* the log in log order, so at most limit of them, with total the length
\* of the log and hasMore true exactly when total > limit.
C40_LastLimitMessages ==
    call.returned =>
        LET total == Len(call.lines)
            n == IF call.limit < total THEN call.limit ELSE total
        IN /\ Len(call.result.messages) <= call.limit
           /\ call.result.messages = SubSeq(call.lines, total - n + 1, total)
           /\ call.result.total = total
           /\ call.result.hasMore = (total > call.limit)

====
